---- MODULE Spec2Model ----
(***************************************************************************)
(* A model of dicom_workstation_lite: the imaging pipeline of              *)
(* backend/dicom_processor.py (window/level mapping, PNG encoding), the    *)
(* JSON metadata store of backend/storage.py and the request handlers of   *)
(* backend/api.py.                                                         *)
(*                                                                         *)
(* Numbers.  A grid holds float32 samples with integral values (raw DICOM  *)
(* samples after an integral rescale).  Every intermediate value of the    *)
(* windowing arithmetic is kept as an exact fraction n/d, or as one of the *)
(* IEEE specials +inf, -inf, nan that numpy produces on a division by      *)
(* zero (numpy warns, it does not raise).  On integral samples the float32 *)
(* evaluation of (v - lower) / window * 255 truncates to the same integer  *)
(* as the exact fraction, so the fraction is a faithful stand-in.          *)
(***************************************************************************)
EXTENDS Integers, Sequences, FiniteSets, TLC

(***************************************************************************)
(* Bounds of the model.                                                    *)
(***************************************************************************)
\* largest number of samples of an enumerated input grid
MaxLen == 2

(***************************************************************************)
(* Python values handed to the optional parameters custom_window and       *)
(* custom_level: None, an int, or a value on which float arithmetic raises *)
(* (a non-numeric object, or an int too large to convert to float).        *)
(***************************************************************************)
PyNone == [t |-> "None", v |-> 0]

PyInt(i) == [t |-> "int", v |-> i]

PyBad == [t |-> "bad", v |-> 0]

(***************************************************************************)
(* Floating-point values: an exact fraction n/d with d > 0, or a special.  *)
(***************************************************************************)
Fin(n, d) == [k |-> "fin", n |-> n, d |-> d]

PInf == [k |-> "pinf", n |-> 0, d |-> 1]

NInf == [k |-> "ninf", n |-> 0, d |-> 1]

NaN == [k |-> "nan", n |-> 0, d |-> 1]

\* a - b on finite values
f_sub(a, b) == Fin(a.n * b.d - b.n * a.d, a.d * b.d)

\* a / b, numpy semantics: x/0 is +-inf, 0/0 is nan, no exception
f_div(a, b) ==
  IF a.k # "fin" THEN a
  ELSE IF b.n = 0
       THEN (IF a.n > 0 THEN PInf ELSE IF a.n < 0 THEN NInf ELSE NaN)
       ELSE IF b.n > 0 THEN Fin(a.n * b.d, a.d * b.n)
            ELSE Fin(-(a.n * b.d), a.d * (-b.n))

\* a * c for an integral constant c > 0
f_mul(a, c) == IF a.k = "fin" THEN Fin(a.n * c, a.d) ELSE a

\* truncation toward zero of a finite value
f_trunc(a) == IF a.n >= 0 THEN a.n \div a.d ELSE -((-a.n) \div a.d)

(***************************************************************************)
(* numpy arrays: a dtype, a 2-D shape and the samples in row-major order.  *)
(***************************************************************************)
ndarray(dtype, shape, data) == [dtype |-> dtype, shape |-> shape, data |-> data]

\* the result of an elementwise operation on arr: same shape, new samples
elementwise(arr, dtype, data) == ndarray(dtype, arr.shape, data)

\* the sample positions of an array
indices(arr) == 1..Len(arr.data)

\* np_clip left out: the value passes unclipped
np_clip_none(x) == x

\* np.clip(x, 0.0, 1.0) on one element; nan stays nan
np_clip(x) ==
  IF x.k = "pinf" THEN Fin(1, 1)
  ELSE IF x.k = "ninf" THEN Fin(0, 1)
  ELSE IF x.k = "nan" THEN x
  ELSE IF x.n < 0 THEN Fin(0, 1)
  ELSE IF x.n > x.d THEN Fin(1, 1)
  ELSE x

\* astype_uint8 rounding half up instead of truncating
astype_uint8_round(x, nanv) ==
  IF x.k = "fin" THEN ((2 * x.n + x.d) \div (2 * x.d)) % 256 ELSE nanv

\* astype_uint8 with the signed 8-bit dtype
astype_int8(x, nanv) ==
  IF x.k = "fin" THEN ((f_trunc(x) + 128) % 256) - 128 ELSE nanv - 128

\* .astype(np.uint8) on one element: truncation, wrapping modulo 256; the
\* cast of nan (or inf) is undefined in C, nanv is the byte the build yields
astype_uint8(x, nanv) ==
  IF x.k = "fin" THEN f_trunc(x) % 256 ELSE nanv

RECURSIVE seq_min(_)
\* pixel_array.min()
seq_min(s) ==
  IF Len(s) = 1 THEN s[1]
  ELSE LET m == seq_min(Tail(s)) IN IF s[1] < m THEN s[1] ELSE m

RECURSIVE seq_max(_)
\* pixel_array.max()
seq_max(s) ==
  IF Len(s) = 1 THEN s[1]
  ELSE LET m == seq_max(Tail(s)) IN IF s[1] > m THEN s[1] ELSE m

(***************************************************************************)
(* dicom_processor.py: WINDOW_PRESETS and apply_window_level.              *)
(***************************************************************************)
PRESET_TABLE ==
  [default |-> [window |-> 400, level |-> 40],
   lung    |-> [window |-> 1500, level |-> -600],
   bone    |-> [window |-> 2000, level |-> 300],
   brain   |-> [window |-> 80, level |-> 40],
   liver   |-> [window |-> 150, level |-> 30]]

\* resolve_window testing the preset name before the custom values
resolve_window_preset_first(presets, preset, custom_window, custom_level) ==
  IF preset \in DOMAIN presets
  THEN [window |-> PyInt(presets[preset].window),
        level |-> PyInt(presets[preset].level)]
  ELSE IF custom_window.t # "None" /\ custom_level.t # "None"
  THEN [window |-> custom_window, level |-> custom_level]
  ELSE [window |-> PyInt(presets["default"].window),
        level |-> PyInt(presets["default"].level)]

\* resolve_window matching preset names without regard to case
resolve_window_nocase(presets, preset, custom_window, custom_level) ==
  LET name == IF preset = "Lung" THEN "lung" ELSE preset
  IN IF custom_window.t # "None" /\ custom_level.t # "None"
     THEN [window |-> custom_window, level |-> custom_level]
     ELSE IF name \in DOMAIN presets
     THEN [window |-> PyInt(presets[name].window),
           level |-> PyInt(presets[name].level)]
     ELSE [window |-> PyInt(presets["default"].window),
           level |-> PyInt(presets["default"].level)]

\* resolve_window letting a single custom value override its half of the
\* preset
resolve_window_partial(presets, preset, custom_window, custom_level) ==
  LET name == IF preset \in DOMAIN presets THEN preset ELSE "default"
  IN [window |-> IF custom_window.t # "None" THEN custom_window
                 ELSE PyInt(presets[name].window),
      level |-> IF custom_level.t # "None" THEN custom_level
                ELSE PyInt(presets[name].level)]

\* lines 170-180: the (window, level) the call works with, as Python values
resolve_window(presets, preset, custom_window, custom_level) ==
  IF custom_window.t # "None" /\ custom_level.t # "None"
  THEN [window |-> custom_window, level |-> custom_level]
  ELSE IF preset \in DOMAIN presets
  THEN [window |-> PyInt(presets[preset].window),
        level |-> PyInt(presets[preset].level)]
  ELSE [window |-> PyInt(presets["default"].window),
        level |-> PyInt(presets["default"].level)]

\* the try block raises exactly when the float arithmetic of lines 187-191
\* meets a value it cannot convert; a zero window does not raise
transform_raises(wl) == wl.window.t = "bad" \/ wl.level.t = "bad"

\* window_sample scaling to 256 levels
window_sample_256(v, window, level, nanv) ==
  LET lower_bound == Fin(2 * level - window, 2)
      windowed == f_div(f_sub(Fin(v, 1), lower_bound), Fin(window, 1))
      clipped == np_clip(windowed)
  IN astype_uint8(f_mul(clipped, 256), nanv)

\* lines 187-199: the windowing transform of one sample v
window_sample(v, window, level, nanv) ==
  LET lower_bound == Fin(2 * level - window, 2)
      windowed == f_div(f_sub(Fin(v, 1), lower_bound), Fin(window, 1))
      clipped == np_clip(windowed)
  IN astype_uint8(f_mul(clipped, 255), nanv)

\* lines 204-205: the min-max normalisation of one sample v
fallback_sample(v, lo, hi, nanv) ==
  LET normalized == f_mul(f_div(Fin(v - lo, 1), Fin(hi - lo, 1)), 255)
  IN astype_uint8(normalized, nanv)

apply_window_level(presets, pixel_array, preset, custom_window, custom_level, nanv) ==
  LET wl == resolve_window(presets, preset, custom_window, custom_level)
      lo == seq_min(pixel_array.data)
      hi == seq_max(pixel_array.data)
      W(v) == window_sample(v, wl.window.v, wl.level.v, nanv)
      N(v) == fallback_sample(v, lo, hi, nanv)
  IN IF transform_raises(wl)
     THEN elementwise(pixel_array, "uint8", [i \in indices(pixel_array) |-> N(pixel_array.data[i])])
     ELSE elementwise(pixel_array, "uint8", [i \in indices(pixel_array) |-> W(pixel_array.data[i])])

(***************************************************************************)
(* dicom_processor.py: get_pixel_array and array_to_png_bytes.             *)
(***************************************************************************)
None == "None"

\* a str, and a pydicom PersonName, whose str() is the name in its
\* caret-separated form
PyStr(s) == [t |-> "str", v |-> s]

PersonName(s) == [t |-> "PersonName", v |-> s]

py_str(x) == x.v

\* a parsed DICOM dataset: a record whose fields are the tags it holds (a tag
\* the file lacks is no field of the record), and beside them what pydicom
\* does on access: whether the pixel_array property exists, the grid it
\* decodes to, the message of the error decoding it raises ("" when it
\* decodes), and whether reading a tag raises
Dataset(study_uid, sop_uid, patient_id, modality, has_pixels, raw) ==
  [PatientID |-> patient_id, PatientName |-> PersonName("Test^Patient"),
   StudyInstanceUID |-> study_uid, StudyDate |-> "20250106",
   StudyTime |-> "120000", StudyDescription |-> "Test Study",
   Modality |-> modality, SeriesInstanceUID |-> "1.2", SeriesNumber |-> PyInt(1),
   SeriesDescription |-> "Test Series", SOPInstanceUID |-> sop_uid,
   InstanceNumber |-> PyInt(1), Rows |-> PyInt(1), Columns |-> PyInt(1),
   has_pixel_array |-> has_pixels, pixel_array |-> raw, decode_error |-> "",
   access_raises |-> FALSE]

\* getattr(obj, name, default)
getattr(obj, name, default) == IF name \in DOMAIN obj THEN obj[name] ELSE default

\* the dataset without the tags of the set names
without(ds, names) == [f \in DOMAIN ds \ names |-> ds[f]]

\* the dataset with one more tag
with_tag(ds, name, value) ==
  [f \in DOMAIN ds \cup {name} |-> IF f = name THEN value ELSE ds[f]]

Ok(value) == [status |-> "ok", value |-> value]

Raised(exc) == [status |-> "raised", value |-> exc]

\* a ValueError whose message is the concatenation of the parts
ValueError(parts) == [type |-> "ValueError", message |-> parts]

\* the largest power of two u with a \div u >= 2^23, for a >= 2^24: the
\* spacing of the float32 values around a
RECURSIVE float32_ulp(_, _)
float32_ulp(a, u) == IF a \div u < 16777216 THEN u ELSE float32_ulp(a, 2 * u)

\* the float32 nearest to the integer n, ties to even: 24 significand bits
float32(n) ==
  LET a == IF n < 0 THEN -n ELSE n
      u == float32_ulp(a, 1)
      q == a \div u
      r == a % u
      rounded == IF 2 * r > u \/ (2 * r = u /\ q % 2 = 1) THEN (q + 1) * u ELSE q * u
  IN IF n < 0 THEN -rounded ELSE rounded

\* get_pixel_array applying the rescale whatever the pair, with the
\* intercept subtracted
get_pixel_array_minus(ds) ==
  LET rescale_slope == getattr(ds, "RescaleSlope", PyInt(1))
      rescale_intercept == getattr(ds, "RescaleIntercept", PyInt(0))
      R(v) == float32(float32(float32(v) * rescale_slope.v) - rescale_intercept.v)
  IN IF ds.decode_error # "" \/ ~ds.has_pixel_array
        \/ rescale_slope.t # "int" \/ rescale_intercept.t # "int"
     THEN Raised(ValueError(<<"Error processing pixel data: ", "">>))
     ELSE Ok(elementwise(ds.pixel_array, "float32",
                         [i \in indices(ds.pixel_array) |-> R(ds.pixel_array.data[i])]))

\* get_pixel_array raising the bare errors, without the wrapping handlers
get_pixel_array_unwrapped(ds) ==
  IF ds.decode_error # "" THEN Raised([type |-> "Exception", message |-> <<ds.decode_error>>])
  ELSE IF ~ds.has_pixel_array
  THEN Raised(ValueError(<<"", "no pixel data">>))
  ELSE Raised([type |-> "TypeError", message |-> <<"unsupported operand type(s)">>])

\* lines 117-137.  hasattr swallows only the AttributeError pydicom raises
\* when there is no pixel data element; any other error of decoding leaves
\* hasattr and is wrapped by the last handler, as is the ValueError of line
\* 120 itself.  A rescale tag that is present and empty reads as None, on
\* which the arithmetic of line 130 raises TypeError.
get_pixel_array(ds) ==
  LET rescale_slope == getattr(ds, "RescaleSlope", PyInt(1))
      rescale_intercept == getattr(ds, "RescaleIntercept", PyInt(0))
      R(v) == float32(float32(float32(v) * rescale_slope.v) + rescale_intercept.v)
      C(v) == float32(v)
  IN IF ds.decode_error # ""
     THEN Raised(ValueError(<<"Error processing pixel data: ", ds.decode_error>>))
     ELSE IF ~ds.has_pixel_array
     THEN Raised(ValueError(<<"Error processing pixel data: ",
                              "DICOM dataset does not contain pixel data">>))
     ELSE IF rescale_slope # PyInt(1) \/ rescale_intercept # PyInt(0)
     THEN IF rescale_slope.t # "int" \/ rescale_intercept.t # "int"
          THEN Raised(ValueError(<<"Error processing pixel data: ",
                                   "unsupported operand type(s)">>))
          ELSE Ok(elementwise(ds.pixel_array, "float32",
                              [i \in indices(ds.pixel_array) |-> R(ds.pixel_array.data[i])]))
     ELSE Ok(elementwise(ds.pixel_array, "float32",
                         [i \in indices(ds.pixel_array) |-> C(ds.pixel_array.data[i])]))

PNG_SIGNATURE == <<137, 80, 78, 71, 13, 10, 26, 10>>

\* the encoding without the file signature: header and samples only
png_encode_headerless(arr) == <<arr.shape[2], arr.shape[1]>> \o arr.data

\* PIL's lossless grayscale encoding: the signature, the image header with
\* width and height, the samples
png_encode(arr) == PNG_SIGNATURE \o <<arr.shape[2], arr.shape[1]>> \o arr.data

\* array_to_png_bytes normalising whatever the dtype
array_to_png_bytes_always(pixel_array) ==
  LET pixel_min == seq_min(pixel_array.data)
      pixel_max == seq_max(pixel_array.data)
      S(v) == astype_uint8(
                f_mul(f_div(Fin(v - pixel_min, 1), Fin(pixel_max - pixel_min, 1)), 255), 0)
      Z(v) == 0
  IN png_encode(IF pixel_max > pixel_min
                THEN elementwise(pixel_array, "uint8", [i \in indices(pixel_array) |-> S(pixel_array.data[i])])
                ELSE elementwise(pixel_array, "uint8", [i \in indices(pixel_array) |-> Z(pixel_array.data[i])]))

\* lines 230-253
array_to_png_bytes(pixel_array) ==
  LET pixel_min == seq_min(pixel_array.data)
      pixel_max == seq_max(pixel_array.data)
      S(v) == astype_uint8(
                f_mul(f_div(Fin(v - pixel_min, 1), Fin(pixel_max - pixel_min, 1)), 255), 0)
      Z(v) == 0
      as_uint8 ==
        IF pixel_array.dtype # "uint8"
        THEN IF pixel_max > pixel_min
             THEN elementwise(pixel_array, "uint8", [i \in indices(pixel_array) |-> S(pixel_array.data[i])])
             ELSE elementwise(pixel_array, "uint8", [i \in indices(pixel_array) |-> Z(pixel_array.data[i])])
        ELSE pixel_array
  IN png_encode(as_uint8)

\* extract_metadata without the 'Unknown' default of patient_name
extract_metadata_no_default(dicom_dataset) ==
  IF ~dicom_dataset.access_raises
  THEN [patient_id |-> getattr(dicom_dataset, "PatientID", None),
        patient_name |-> py_str(getattr(dicom_dataset, "PatientName", PyStr(None))),
        study_uid |-> getattr(dicom_dataset, "StudyInstanceUID", None),
        study_date |-> getattr(dicom_dataset, "StudyDate", None),
        study_time |-> getattr(dicom_dataset, "StudyTime", None),
        study_description |-> getattr(dicom_dataset, "StudyDescription", None),
        modality |-> getattr(dicom_dataset, "Modality", None),
        series_uid |-> getattr(dicom_dataset, "SeriesInstanceUID", None),
        series_number |-> getattr(dicom_dataset, "SeriesNumber", PyNone),
        series_description |-> getattr(dicom_dataset, "SeriesDescription", None),
        sop_uid |-> getattr(dicom_dataset, "SOPInstanceUID", None),
        instance_number |-> getattr(dicom_dataset, "InstanceNumber", PyNone),
        rows |-> getattr(dicom_dataset, "Rows", PyNone),
        columns |-> getattr(dicom_dataset, "Columns", PyNone)]
  ELSE [patient_id |-> None, patient_name |-> None, study_uid |-> None,
        study_date |-> None, study_time |-> None, modality |-> None,
        series_uid |-> None, sop_uid |-> None, instance_number |-> PyNone]

\* lines 49-91: the mapping of the try block, or the one of the handler when
\* reading a tag raises
extract_metadata(dicom_dataset) ==
  IF ~dicom_dataset.access_raises
  THEN [patient_id |-> getattr(dicom_dataset, "PatientID", None),
        patient_name |-> py_str(getattr(dicom_dataset, "PatientName", PyStr("Unknown"))),
        study_uid |-> getattr(dicom_dataset, "StudyInstanceUID", None),
        study_date |-> getattr(dicom_dataset, "StudyDate", None),
        study_time |-> getattr(dicom_dataset, "StudyTime", None),
        study_description |-> getattr(dicom_dataset, "StudyDescription", None),
        modality |-> getattr(dicom_dataset, "Modality", None),
        series_uid |-> getattr(dicom_dataset, "SeriesInstanceUID", None),
        series_number |-> getattr(dicom_dataset, "SeriesNumber", PyNone),
        series_description |-> getattr(dicom_dataset, "SeriesDescription", None),
        sop_uid |-> getattr(dicom_dataset, "SOPInstanceUID", None),
        instance_number |-> getattr(dicom_dataset, "InstanceNumber", PyNone),
        rows |-> getattr(dicom_dataset, "Rows", PyNone),
        columns |-> getattr(dicom_dataset, "Columns", PyNone)]
  ELSE [patient_id |-> None, patient_name |-> "Unknown", study_uid |-> None,
        study_date |-> None, study_time |-> None, modality |-> None,
        series_uid |-> None, sop_uid |-> None, instance_number |-> PyNone]

(***************************************************************************)
(* storage.py: JSONStorage.  The instance attribute data holds the list of *)
(* study entries; the JSON file holds the document json.dump wrote from    *)
(* it, which json.load reads back.                                         *)
(***************************************************************************)
\* json.dump of a str or None, and of an int or None: a JSON string, number
\* or null
json_of_str(x) == IF x = None THEN [j |-> "null"] ELSE [j |-> "string", s |-> x]

json_of_int(x) == IF x.t = "None" THEN [j |-> "null"] ELSE [j |-> "number", n |-> x.v]

\* json.load of a string or null, and of a number or null
str_of_json(v) == IF v.j = "null" THEN None ELSE v.s

int_of_json(v) == IF v.j = "null" THEN PyNone ELSE PyInt(v.n)

\* json.dump writing every image list as an empty array
json_dump_no_images(studies) ==
  [i \in 1..Len(studies) |->
     [study_uid |-> json_of_str(studies[i].study_uid),
      patient_id |-> json_of_str(studies[i].patient_id),
      patient_name |-> json_of_str(studies[i].patient_name),
      study_date |-> json_of_str(studies[i].study_date),
      modality |-> json_of_str(studies[i].modality),
      images |-> <<>>]]

\* line 72: the document json.dump writes for the list of study entries
json_dump(studies) ==
  [i \in 1..Len(studies) |->
     [study_uid |-> json_of_str(studies[i].study_uid),
      patient_id |-> json_of_str(studies[i].patient_id),
      patient_name |-> json_of_str(studies[i].patient_name),
      study_date |-> json_of_str(studies[i].study_date),
      modality |-> json_of_str(studies[i].modality),
      images |-> [j \in 1..Len(studies[i].images) |->
                    [sop_uid |-> json_of_str(studies[i].images[j].sop_uid),
                     instance_number |-> json_of_int(studies[i].images[j].instance_number),
                     file_path |-> [j |-> "string", s |-> studies[i].images[j].file_path]]]]]

\* line 49: the list json.load reads from a complete document
json_load(text) ==
  [i \in 1..Len(text) |->
     [study_uid |-> str_of_json(text[i].study_uid),
      patient_id |-> str_of_json(text[i].patient_id),
      patient_name |-> str_of_json(text[i].patient_name),
      study_date |-> str_of_json(text[i].study_date),
      modality |-> str_of_json(text[i].modality),
      images |-> [j \in 1..Len(text[i].images) |->
                    [sop_uid |-> str_of_json(text[i].images[j].sop_uid),
                     instance_number |-> int_of_json(text[i].images[j].instance_number),
                     file_path |-> text[i].images[j].file_path.s]]]]

\* a file of the data directory: whether it exists, whether a writer has it
\* open and has not written all of the document yet, and the document
NoFile == [exists |-> FALSE, partial |-> FALSE, text |-> <<>>]

JsonFile(studies) == [exists |-> TRUE, partial |-> FALSE, text |-> json_dump(studies)]

\* line 71: a file just opened for writing, truncated
OpenedFile == [exists |-> TRUE, partial |-> TRUE, text |-> <<>>]

\* lines 38-61: a file that is absent or does not parse loads as no studies
load_data(file) == IF file.exists /\ ~file.partial THEN json_load(file.text) ELSE <<>>

\* _save_data opening the JSON file itself for writing
save_data_open_in_place(file, tmp) == [json_file |-> OpenedFile, json_tmp |-> tmp]

\* lines 70-71: the two files after open(temp_path, 'w')
save_data_open(file, tmp) == [json_file |-> file, json_tmp |-> OpenedFile]

\* line 75: the two files after temp_path.replace(json_path)
save_data_replace(file, tmp) == [json_file |-> tmp, json_tmp |-> NoFile]

\* lines 210-239: the destination path of a stored DICOM file
file_path_of(sop_uid) == <<"data/dicom_files", sop_uid, ".dcm">>

required_study_fields == {"study_uid", "patient_id", "patient_name", "study_date", "modality"}

required_image_fields == {"sop_uid", "instance_number", "file_path"}

\* lines 111-118: the index of the first entry with this study_uid, or 0
existing_study_idx(data, study_uid) ==
  IF \E i \in 1..Len(data) : data[i].study_uid = study_uid
  THEN CHOOSE i \in 1..Len(data) :
         /\ data[i].study_uid = study_uid
         /\ \A j \in 1..(i - 1) : data[j].study_uid # study_uid
  ELSE 0

\* save_study appending whether or not the study is stored
save_study_append(data, study_metadata, images_metadata) ==
  IF ~(required_study_fields \subseteq DOMAIN study_metadata)
     \/ \E i \in 1..Len(images_metadata) :
          ~(required_image_fields \subseteq DOMAIN images_metadata[i])
  THEN [status |-> "raised", value |-> ValueError(<<"Missing required field">>),
        data |-> data]
  ELSE [status |-> "ok", value |-> None,
        data |-> Append(data, [study_uid |-> study_metadata.study_uid,
                               patient_id |-> study_metadata.patient_id,
                               patient_name |-> study_metadata.patient_name,
                               study_date |-> study_metadata.study_date,
                               modality |-> study_metadata.modality,
                               images |-> images_metadata])]

\* save_study storing the entry before it validates the arguments
save_study_validate_late(data, study_metadata, images_metadata) ==
  LET study_entry == [study_uid |-> getattr(study_metadata, "study_uid", None),
                      patient_id |-> getattr(study_metadata, "patient_id", None),
                      patient_name |-> getattr(study_metadata, "patient_name", None),
                      study_date |-> getattr(study_metadata, "study_date", None),
                      modality |-> getattr(study_metadata, "modality", None),
                      images |-> <<>>]
  IN IF ~(required_study_fields \subseteq DOMAIN study_metadata)
        \/ \E i \in 1..Len(images_metadata) :
             ~(required_image_fields \subseteq DOMAIN images_metadata[i])
     THEN [status |-> "raised", value |-> ValueError(<<"Missing required field">>),
           data |-> Append(data, study_entry)]
     ELSE [status |-> "ok", value |-> None,
           data |-> Append(data, [study_entry EXCEPT !.images = images_metadata])]

\* lines 97-136, save_study up to the call of _save_data: whether it raised,
\* what it raised, and the instance's list data afterwards
save_study(data, study_metadata, images_metadata) ==
  IF ~(required_study_fields \subseteq DOMAIN study_metadata)
  THEN [status |-> "raised",
        value |-> ValueError(<<"Missing required field in study metadata: ",
                               CHOOSE field \in required_study_fields :
                                 field \notin DOMAIN study_metadata>>),
        data |-> data]
  ELSE IF \E i \in 1..Len(images_metadata) :
            ~(required_image_fields \subseteq DOMAIN images_metadata[i])
  THEN [status |-> "raised",
        value |-> ValueError(<<"Missing required field in image metadata: ",
                               CHOOSE field \in required_image_fields :
                                 \E i \in 1..Len(images_metadata) :
                                   field \notin DOMAIN images_metadata[i]>>),
        data |-> data]
  ELSE LET idx == existing_study_idx(data, study_metadata.study_uid)
           study_entry == [study_uid |-> study_metadata.study_uid,
                           patient_id |-> study_metadata.patient_id,
                           patient_name |-> study_metadata.patient_name,
                           study_date |-> study_metadata.study_date,
                           modality |-> study_metadata.modality,
                           images |-> images_metadata]
       IN [status |-> "ok", value |-> None,
           data |-> IF idx # 0 THEN [data EXCEPT ![idx] = study_entry]
                    ELSE Append(data, study_entry)]

\* the characters of a stored date string
characters(date_str) ==
  CASE date_str = "20250106" -> <<"2", "0", "2", "5", "0", "1", "0", "6">>
    [] date_str = "20240101" -> <<"2", "0", "2", "4", "0", "1", "0", "1">>
    [] date_str = "20250230" -> <<"2", "0", "2", "5", "0", "2", "3", "0">>
    [] date_str = "2025-01-06" -> <<"2", "0", "2", "5", "-", "0", "1", "-", "0", "6">>
    [] date_str = "2025116" -> <<"2", "0", "2", "5", "1", "1", "6">>
    [] date_str = "" -> <<>>

Digits == {"0", "1", "2", "3", "4", "5", "6", "7", "8", "9"}

\* int() of a digit character
digit(c) ==
  CASE c = "0" -> 0 [] c = "1" -> 1 [] c = "2" -> 2 [] c = "3" -> 3 [] c = "4" -> 4
    [] c = "5" -> 5 [] c = "6" -> 6 [] c = "7" -> 7 [] c = "8" -> 8 [] c = "9" -> 9

\* the ways the pattern of %m (1[0-2]|0[1-9]|[1-9]) matches cs at position
\* p, in the order the regular expression tries them: <<month, next>>
month_matches(cs, p) ==
  LET c1 == IF p <= Len(cs) THEN cs[p] ELSE "$"
      c2 == IF p + 1 <= Len(cs) THEN cs[p + 1] ELSE "$"
  IN (IF c1 = "1" /\ c2 \in {"0", "1", "2"}
      THEN <<<<10 + digit(c2), p + 2>>>> ELSE <<>>)
     \o (IF c1 = "0" /\ c2 \in Digits \ {"0"} THEN <<<<digit(c2), p + 2>>>> ELSE <<>>)
     \o (IF c1 \in Digits \ {"0"} THEN <<<<digit(c1), p + 1>>>> ELSE <<>>)

\* the same for %d: 3[0-1]|[1-2]\d|0[1-9]|[1-9]| [1-9]
day_matches(cs, p) ==
  LET c1 == IF p <= Len(cs) THEN cs[p] ELSE "$"
      c2 == IF p + 1 <= Len(cs) THEN cs[p + 1] ELSE "$"
  IN (IF c1 = "3" /\ c2 \in {"0", "1"} THEN <<<<30 + digit(c2), p + 2>>>> ELSE <<>>)
     \o (IF c1 \in {"1", "2"} /\ c2 \in Digits
         THEN <<<<10 * digit(c1) + digit(c2), p + 2>>>> ELSE <<>>)
     \o (IF c1 = "0" /\ c2 \in Digits \ {"0"} THEN <<<<digit(c2), p + 2>>>> ELSE <<>>)
     \o (IF c1 \in Digits \ {"0"} THEN <<<<digit(c1), p + 1>>>> ELSE <<>>)
     \o (IF c1 = " " /\ c2 \in Digits \ {"0"} THEN <<<<digit(c2), p + 2>>>> ELSE <<>>)

days_in_month(year, month) ==
  IF month = 2
  THEN (IF year % 4 = 0 /\ (year % 100 # 0 \/ year % 400 = 0) THEN 29 ELSE 28)
  ELSE IF month \in {4, 6, 9, 11} THEN 30 ELSE 31

\* datetime.min; a datetime at midnight is kept as the number yyyymmdd, which
\* orders as the datetimes do
datetime_min == 10101

\* datetime.strptime(date_str, '%Y%m%d'): the regular expression takes four
\* digits, then the first month and day alternatives that match one after
\* the other; characters left over, a year 0 or a day the month does not
\* have raise ValueError, None raises TypeError
strptime_Ymd(date_str) ==
  IF date_str = None THEN Raised([type |-> "TypeError", message |-> <<>>])
  ELSE LET cs == characters(date_str)
           year == 1000 * digit(cs[1]) + 100 * digit(cs[2]) + 10 * digit(cs[3]) + digit(cs[4])
           found == {md \in (1..3) \X (1..5) :
                       /\ md[1] <= Len(month_matches(cs, 5))
                       /\ md[2] <= Len(day_matches(cs, month_matches(cs, 5)[md[1]][2]))}
           first == CHOOSE md \in found :
                      \A other \in found :
                        md[1] < other[1] \/ (md[1] = other[1] /\ md[2] <= other[2])
           month == month_matches(cs, 5)[first[1]]
           day == day_matches(cs, month[2])[first[2]]
           error == Raised(ValueError(<<"time data does not match format '%Y%m%d'">>))
       IN IF Len(cs) < 4 \/ \E i \in 1..4 : cs[i] \notin Digits THEN error
          ELSE IF found = {} THEN error
          ELSE IF day[2] # Len(cs) + 1 THEN error
          ELSE IF year = 0 \/ day[1] > days_in_month(year, month[1]) THEN error
          ELSE Ok(year * 10000 + month[1] * 100 + day[1])

\* lines 164-171
get_sort_key(study) ==
  LET parsed == strptime_Ymd(getattr(study, "study_date", ""))
  IN IF parsed.status = "raised" THEN datetime_min ELSE parsed.value

\* line 173, sorted(studies, key=get_sort_key, reverse=True): the key of
\* every study is computed once; the sort is stable, studies with equal keys
\* keep their order
sorted_reverse(studies) ==
  LET RECURSIVE keyed(_)
      keyed(rest) ==
        IF rest = <<>> THEN <<>>
        ELSE <<<<get_sort_key(Head(rest)), Head(rest)>>>> \o keyed(Tail(rest))
      RECURSIVE ordered(_)
      ordered(pairs) ==
        IF pairs = <<>> THEN <<>>
        ELSE LET first == CHOOSE i \in 1..Len(pairs) :
                            /\ \A j \in 1..Len(pairs) : pairs[i][1] >= pairs[j][1]
                            /\ \A j \in 1..(i - 1) : pairs[j][1] < pairs[i][1]
             IN <<pairs[first][2]>>
                \o ordered(SubSeq(pairs, 1, first - 1)
                           \o SubSeq(pairs, first + 1, Len(pairs)))
  IN ordered(keyed(studies))

\* lines 155-178; a filter that is None or empty filters nothing
get_studies(data, modality) ==
  LET kept == {i \in 1..Len(data) : data[i].modality = modality}
      RECURSIVE filtered(_)
      filtered(i) ==
        IF i > Len(data) THEN <<>>
        ELSE (IF i \in kept THEN <<data[i]>> ELSE <<>>) \o filtered(i + 1)
  IN IF modality = None \/ modality = ""
     THEN sorted_reverse(data)
     ELSE sorted_reverse(filtered(1))

\* all images of the stored studies, in search order, each with its study
all_images(data) ==
  LET RECURSIVE walk(_)
      walk(i) ==
        IF i > Len(data) THEN <<>>
        ELSE [j \in 1..Len(data[i].images) |->
                [image |-> data[i].images[j], study |-> data[i]]] \o walk(i + 1)
  IN walk(1)

\* get_image_metadata giving the context of the first stored study
get_image_metadata_first_study(data, sop_uid) ==
  LET imgs == all_images(data)
      hits == {i \in 1..Len(imgs) : imgs[i].image.sop_uid = sop_uid}
  IN IF hits = {} THEN [found |-> FALSE, sop_uid |-> None, instance_number |-> PyNone,
                        file_path |-> <<>>, study_uid |-> None, patient_id |-> None,
                        patient_name |-> None]
     ELSE LET h == imgs[CHOOSE i \in hits : \A j \in hits : i <= j]
          IN [found |-> TRUE, sop_uid |-> h.image.sop_uid,
              instance_number |-> h.image.instance_number,
              file_path |-> h.image.file_path,
              study_uid |-> data[1].study_uid,
              patient_id |-> data[1].patient_id,
              patient_name |-> data[1].patient_name]

\* lines 190-208: the first image with this sop_uid in the order of the
\* studies and of their images, with the context of its study; found is
\* FALSE for the return of None
get_image_metadata(data, sop_uid) ==
  LET imgs == all_images(data)
      hits == {i \in 1..Len(imgs) : imgs[i].image.sop_uid = sop_uid}
  IN IF hits = {} THEN [found |-> FALSE, sop_uid |-> None, instance_number |-> PyNone,
                        file_path |-> <<>>, study_uid |-> None, patient_id |-> None,
                        patient_name |-> None]
     ELSE LET h == imgs[CHOOSE i \in hits : \A j \in hits : i <= j]
          IN [found |-> TRUE, sop_uid |-> h.image.sop_uid,
              instance_number |-> h.image.instance_number,
              file_path |-> h.image.file_path,
              study_uid |-> h.study.study_uid,
              patient_id |-> h.study.patient_id,
              patient_name |-> h.study.patient_name]

(***************************************************************************)
(* api.py: GET /image/{sop_uid}.                                           *)
(***************************************************************************)
\* an error response; detail is the message as the sequence of the parts the
\* f-string joins
HTTPException(status_code, detail) ==
  [status_code |-> status_code, media_type |-> "application/json",
   detail |-> detail, body |-> <<>>]

StreamingResponse(body) ==
  [status_code |-> 200, media_type |-> "image/png", detail |-> <<>>, body |-> body]

\* str(e) of the InvalidDicomError pydicom.dcmread raises on a file that is
\* not DICOM
InvalidDicomError ==
  "File is missing DICOM File Meta Information header or the 'DICM' prefix is missing"

\* get_image answering a failure of the processing without its message
get_image_response_no_detail(presets, file, stored, sop_uid, preset, nanv) ==
  LET image_metadata == get_image_metadata(load_data(file), sop_uid)
      file_path == image_metadata.file_path
  IN IF ~image_metadata.found
     THEN HTTPException(404, <<"Image with SOP UID '", sop_uid, "' not found">>)
     ELSE IF file_path = <<>> \/ file_path \notin DOMAIN stored
     THEN HTTPException(404, <<"Image file not found: ", file_path>>)
     ELSE IF stored[file_path].parsable = FALSE
     THEN HTTPException(500, <<"Error reading DICOM file: ", InvalidDicomError>>)
     ELSE LET pixel_array == get_pixel_array(stored[file_path].ds)
          IN IF pixel_array.status = "raised"
             THEN HTTPException(500, <<"Internal Server Error">>)
             ELSE StreamingResponse(
                    array_to_png_bytes(
                      apply_window_level(presets, pixel_array.value, preset,
                                         PyNone, PyNone, nanv)))

\* lines 354-413: the response to GET /image/{sop_uid}?preset=..., given the
\* JSON file and the stored files (path -> content, where a content
\* is parsable by pydicom or not).  Of the calls in the try block of lines
\* 382-396 get_pixel_array is the one that raises on a stored file; the
\* handler makes each call once
get_image_response(presets, file, stored, sop_uid, preset, nanv) ==
  LET image_metadata == get_image_metadata(load_data(file), sop_uid)
      file_path == image_metadata.file_path
  IN IF ~image_metadata.found
     THEN HTTPException(404, <<"Image with SOP UID '", sop_uid, "' not found">>)
     ELSE IF file_path = <<>> \/ file_path \notin DOMAIN stored
     THEN HTTPException(404, <<"Image file not found: ", file_path>>)
     ELSE IF stored[file_path].parsable = FALSE
     THEN HTTPException(500, <<"Error reading DICOM file: ", InvalidDicomError>>)
     ELSE LET pixel_array == get_pixel_array(stored[file_path].ds)
          IN IF pixel_array.status = "raised"
             THEN HTTPException(500, <<"Error processing image: ">> \o pixel_array.value.message)
             ELSE StreamingResponse(
                    array_to_png_bytes(
                      apply_window_level(presets, pixel_array.value, preset,
                                         PyNone, PyNone, nanv)))

(***************************************************************************)
(* api.py: POST /upload.                                                   *)
(***************************************************************************)
\* UploadResponse of lines 214-219
UploadResponse(study_uid, patient_id, num_files) ==
  [study_uid |-> study_uid, patient_id |-> patient_id, num_files |-> num_files,
   message |-> "Successfully uploaded"]

\* metadata.get(key) is falsy: the value is None or empty
falsy(value) == value = None \/ value = ""

\* the position of study_uid among the keys of studies_data, or 0
studies_data_idx(studies_data, study_uid) ==
  IF \E i \in 1..Len(studies_data) : studies_data[i].study_uid = study_uid
  THEN CHOOSE i \in 1..Len(studies_data) : studies_data[i].study_uid = study_uid
  ELSE 0

\* group_by_study putting the image in front of the images of its study
group_by_study_prepend(studies_data, metadata, destination) ==
  LET idx == studies_data_idx(studies_data, metadata.study_uid)
      image == [sop_uid |-> metadata.sop_uid,
                instance_number |-> metadata.instance_number,
                file_path |-> destination]
      entry == [study_uid |-> metadata.study_uid,
                study_metadata |-> [study_uid |-> metadata.study_uid,
                                    patient_id |-> metadata.patient_id,
                                    patient_name |-> metadata.patient_name,
                                    study_date |-> metadata.study_date,
                                    modality |-> metadata.modality],
                images |-> <<image>>]
  IN IF idx = 0 THEN Append(studies_data, entry)
     ELSE [studies_data EXCEPT ![idx].images = <<image>> \o @]

\* lines 174-192: studies_data after one more image of a study
group_by_study(studies_data, metadata, destination) ==
  LET idx == studies_data_idx(studies_data, metadata.study_uid)
      image == [sop_uid |-> metadata.sop_uid,
                instance_number |-> metadata.instance_number,
                file_path |-> destination]
      entry == [study_uid |-> metadata.study_uid,
                study_metadata |-> [study_uid |-> metadata.study_uid,
                                    patient_id |-> metadata.patient_id,
                                    patient_name |-> metadata.patient_name,
                                    study_date |-> metadata.study_date,
                                    modality |-> metadata.modality],
                images |-> <<image>>]
  IN IF idx = 0 THEN Append(studies_data, entry)
     ELSE [studies_data EXCEPT ![idx].images = Append(@, image)]

\* process_file copying the file into the file store before it validates
\* the identifiers
process_file_copy_first(studies_data, content, copy_ok) ==
  LET metadata == extract_metadata(content.ds)
      stop(code, copied) == [status_code |-> code, copied |-> copied, unlinked |-> FALSE,
                             studies_data |-> studies_data]
  IN IF ~content.parsable THEN stop(400, FALSE)
     ELSE IF ~copy_ok THEN stop(500, FALSE)
     ELSE IF falsy(metadata.study_uid) THEN stop(400, TRUE)
     ELSE IF falsy(metadata.sop_uid) THEN stop(400, TRUE)
     ELSE [status_code |-> 0, copied |-> TRUE, unlinked |-> TRUE,
           studies_data |-> group_by_study(studies_data, metadata,
                                           file_path_of(metadata.sop_uid))]

\* lines 136-203, one iteration of the loop over the uploaded files: the
\* status (0 to go on, else the HTTPException's code), whether the file was
\* copied into the file store, whether its temporary file was unlinked, and
\* studies_data afterwards; copy_ok is whether shutil.copy2 succeeds
process_file(studies_data, content, copy_ok) ==
  LET metadata == extract_metadata(content.ds)
      stop(code, copied) == [status_code |-> code, copied |-> copied, unlinked |-> FALSE,
                             studies_data |-> studies_data]
  IN IF ~content.parsable THEN stop(400, FALSE)
     ELSE IF falsy(metadata.study_uid) THEN stop(400, FALSE)
     ELSE IF falsy(metadata.sop_uid) THEN stop(400, FALSE)
     ELSE IF ~copy_ok THEN stop(500, FALSE)
     ELSE [status_code |-> 0, copied |-> TRUE, unlinked |-> TRUE,
           studies_data |-> group_by_study(studies_data, metadata,
                                           file_path_of(metadata.sop_uid))]

RECURSIVE save_all(_, _, _, _, _)
\* lines 206-226, the loop over studies_data from position k: the instance's
\* data, the JSON file and the responses afterwards, and the status; fail_at
\* is the position whose _save_data raises (0: none does)
save_all(data, file, studies_data, k, fail_at) ==
  IF k > Len(studies_data)
  THEN [status_code |-> 200, data |-> data, file |-> file, responses |-> <<>>]
  ELSE LET study_data == studies_data[k]
           saved == save_study(data, study_data.study_metadata, study_data.images)
       IN IF saved.status = "raised"
          THEN [status_code |-> 500, data |-> data, file |-> file, responses |-> <<>>]
          ELSE IF fail_at = k
          THEN [status_code |-> 500, data |-> saved.data, file |-> file, responses |-> <<>>]
          ELSE IF study_data.study_metadata.patient_id = None
          THEN \* UploadResponse(patient_id=None) fails validation
               [status_code |-> 500, data |-> saved.data, file |-> JsonFile(saved.data),
                responses |-> <<>>]
          ELSE LET rest == save_all(saved.data, JsonFile(saved.data), studies_data,
                                    k + 1, fail_at)
               IN IF rest.status_code # 200 THEN rest
                  ELSE [rest EXCEPT !.responses =
                          <<UploadResponse(study_data.study_uid,
                                           study_data.study_metadata.patient_id,
                                           Len(study_data.images))>> \o @]

(***************************************************************************)
(* api.py: GET /studies and GET /studies/{study_uid}.  The response models *)
(* declare their fields str or int: pydantic rejects None for them, and    *)
(* the handlers answer 500 to the ValidationError.                         *)
(***************************************************************************)
JSONResponse(body) ==
  [status_code |-> 200, media_type |-> "application/json", detail |-> <<>>, body |-> body]

\* lines 259-276: the StudySummary of every study, or the answer to the
\* validation error of the first that has a field None
StudySummaries(studies) ==
     IF \E i \in 1..Len(studies) :
          None \in {studies[i].study_uid, studies[i].patient_id, studies[i].patient_name,
                    studies[i].study_date, studies[i].modality}
     THEN HTTPException(500, <<"Error retrieving studies: ",
                               "validation error for StudySummary">>)
     ELSE JSONResponse([i \in 1..Len(studies) |->
                          [study_uid |-> studies[i].study_uid,
                           patient_id |-> studies[i].patient_id,
                           patient_name |-> studies[i].patient_name,
                           study_date |-> studies[i].study_date,
                           modality |-> studies[i].modality,
                           num_images |-> Len(studies[i].images)]])

\* lines 254-276 on the data the JSONStorage of the request holds: the
\* summaries of the studies storage.get_studies returns
get_studies_of(data) ==
  CHOOSE response \in {StudySummaries(studies) : studies \in {get_studies(data, None)}} : TRUE

\* GET /studies: get_storage constructs a JSONStorage, which loads the file
get_studies_response(file) == get_studies_of(load_data(file))

\* lines 301-330: the StudyDetail of the first study with the uid
StudyDetail(studies, study_uid) ==
  LET hits == {i \in 1..Len(studies) : studies[i].study_uid = study_uid}
      study == studies[CHOOSE i \in hits : \A j \in hits : i <= j]
  IN IF hits = {}
     THEN HTTPException(404, <<"Study with UID '", study_uid, "' not found">>)
     ELSE IF \E j \in 1..Len(study.images) :
               \/ study.images[j].sop_uid = None
               \/ study.images[j].instance_number.t # "int"
     THEN HTTPException(500, <<"Error retrieving study: ",
                               "validation error for ImageMetadata">>)
     ELSE IF None \in {study.study_uid, study.patient_id, study.patient_name,
                       study.study_date, study.modality}
     THEN HTTPException(500, <<"Error retrieving study: ",
                               "validation error for StudyDetail">>)
     ELSE JSONResponse(study)

\* lines 297-330 on the data the JSONStorage of the request holds: the detail
\* of the first study of storage.get_studies with the uid
get_study_detail_of(data, study_uid) ==
  CHOOSE response \in {StudyDetail(studies, study_uid) :
                         studies \in {get_studies(data, None)}} : TRUE

\* GET /studies/{study_uid}: get_storage constructs a JSONStorage, which loads
\* the file
get_study_detail_response(file, study_uid) == get_study_detail_of(load_data(file), study_uid)

(***************************************************************************)
(* State.                                                                  *)
(***************************************************************************)
VARIABLES
  WINDOW_PRESETS,   \* dicom_processor.WINDOW_PRESETS, the module-level table
  pixel_array,      \* the grid handed to the pipeline functions
  preset,           \* the preset name of the call or request
  custom_window,    \* the custom_window argument
  custom_level,     \* the custom_level argument
  windowed,         \* what apply_window_level returned
  png_bytes,        \* what array_to_png_bytes returned
  sop_uid,          \* the path parameter of the GET request
  image_response,   \* the response to the GET request
  pc,               \* which pipeline call has been made
  json_file,        \* data/studies.json
  dicom_files,      \* data/dicom_files: path -> content
  requests,         \* the POST /upload requests: request -> handler state
  tmp_files,        \* the temporary .dcm files that exist
  dicom_dataset,    \* the dataset handed to extract_metadata and get_pixel_array
  metadata,         \* what extract_metadata returned
  pixels,           \* what get_pixel_array returned or raised
  storage,          \* a JSONStorage instance: its list self.data['studies']
  json_tmp,         \* data/studies.json.tmp
  call,             \* the call on the instance in progress or last made
  loaded,           \* what a JSONStorage constructed meanwhile loaded
  main_window,      \* the viewer's MainWindow: its state attributes
  ui_event          \* the last event the viewer handled, with its backend calls

vars == <<WINDOW_PRESETS, pixel_array, preset, custom_window, custom_level,
          windowed, png_bytes, sop_uid, image_response, pc, json_file, dicom_files,
          requests, tmp_files, dicom_dataset, metadata, pixels, storage, json_tmp,
          call, loaded, main_window, ui_event>>

\* the variables of the pipeline calls
wl_vars == <<pixel_array, preset, custom_window, custom_level, windowed, png_bytes, pc>>

\* the variables of the upload handler
upload_vars == <<requests, tmp_files>>

\* the variables of the calls on a dataset
dp_vars == <<dicom_dataset, metadata, pixels>>

\* the variables of the calls on a JSONStorage instance
store_vars == <<storage, json_tmp, call, loaded>>

\* the variables of the viewer
ui_vars == <<main_window, ui_event>>

(***************************************************************************)
(* Inputs of the pipeline functions.                                       *)
(***************************************************************************)
\* sample values of the enumerated grids (Hounsfield units)
Vals == {-1024, -160, 40, 41, 240, 3071}

\* the 2-D shapes with n samples
Shapes(n) == {<<r, c>> : r \in 1..n, c \in 1..n} \cap {sh \in (1..n) \X (1..n) : sh[1] * sh[2] = n}

BoundedGrids ==
  UNION {{ndarray("float32", sh, d) : sh \in Shapes(n), d \in [1..n -> Vals]} : n \in 1..MaxLen}

\* the grids of the test suite and one grid per preset with the two window
\* bounds and the level
TestGrids ==
  {ndarray("float32", <<1, 5>>, <<-1024, -160, 40, 240, 3071>>),
   ndarray("float32", <<1, 4>>, <<-1024, -600, 0, 500>>),
   ndarray("float32", <<1, 3>>, <<0, 500, 1000>>),
   ndarray("float32", <<1, 3>>, <<-1350, -600, 150>>),
   ndarray("float32", <<1, 3>>, <<-700, 300, 1300>>),
   ndarray("float32", <<3, 1>>, <<0, 40, 80>>),
   ndarray("float32", <<1, 3>>, <<-45, 30, 105>>)}

Grids == BoundedGrids \cup TestGrids

\* preset names: the five of the table and names the table does not have
PresetNames == {"default", "lung", "bone", "brain", "liver", "Lung", "nonexistent"}

CustomWindows == {PyNone, PyBad, PyInt(0), PyInt(1000)}

CustomLevels == {PyNone, PyBad, PyInt(40), PyInt(500)}

NoArray == ndarray("none", <<0, 0>>, <<>>)

\* no dataset handed over, nothing returned yet
NoDataset == [access_raises |-> FALSE]

NoMetadata == <<>>

NoPixels == [status |-> "none"]

\* no call made on the instance, no other instance constructed
NoCall ==
  [op |-> "none", pc |-> "done", n |-> 0, study_metadata |-> <<>>,
   images_metadata |-> <<>>, modality |-> None, result |-> [status |-> "none"]]

NoLoad == [valid |-> FALSE, at |-> "", partial |-> FALSE, data |-> <<>>]

\* main_window.py lines 43-47: the state attributes after __init__; NoStudy
\* stands for None
NoStudy == [study_uid |-> None]

\* image_label holds a text or the sop_uid of the image whose pixmap it shows;
\* position_label holds the two numbers of "Image: i / n" (lines 121, 138)
MainWindow ==
  [current_study |-> NoStudy, current_images |-> <<>>, current_index |-> 0,
   current_preset |-> "default", image_label |-> "No image loaded",
   position_label |-> <<0, 0>>]

\* no event handled yet
NoEvent == [name |-> "none", detail_ok |-> TRUE, image_ok |-> TRUE]

NoResponse == [status_code |-> 0, media_type |-> "", detail |-> <<>>, body |-> <<>>]

\* the cast of nan to an 8-bit integer is undefined: builds whose conversion
\* yields the integer indefinite value give 0, saturating ones give 255
NaNBytes == {0, 255}

\* the choices for a call: a single one when its result holds no cast nan
NaNCast(r0, r1) == IF r0 = r1 THEN {0} ELSE NaNBytes

(***************************************************************************)
(* The pipeline functions applied to drawn inputs.                         *)
(***************************************************************************)
\* a store as the API tests leave it: images whose file is present, absent,
\* unreadable or without pixel data
FixtureStudies ==
  <<[study_uid |-> "S1", patient_id |-> "TEST001", patient_name |-> "Test^Patient",
     study_date |-> "20250106", modality |-> "CT",
     images |-> <<[sop_uid |-> "I1", instance_number |-> PyInt(1), file_path |-> file_path_of("I1")],
                  [sop_uid |-> "I2", instance_number |-> PyInt(2), file_path |-> file_path_of("I2")]>>],
    [study_uid |-> "S2", patient_id |-> "TEST002", patient_name |-> "Test^Patient",
     study_date |-> "20240101", modality |-> "MR",
     images |-> <<[sop_uid |-> "I3", instance_number |-> PyInt(1), file_path |-> file_path_of("I3")],
                  [sop_uid |-> "I4", instance_number |-> PyInt(2), file_path |-> file_path_of("I4")]>>]>>

StoredFile(parsable, ds) == [parsable |-> parsable, ds |-> ds]

FixtureFiles(grid) ==
  LET raw == ndarray("int16", grid.shape, grid.data)
      none == ndarray("none", <<0, 0>>, <<>>)
  IN (file_path_of("I1") :> StoredFile(TRUE, Dataset("S1", "I1", "TEST001", "CT", TRUE, raw)))
     @@ (file_path_of("I3") :> StoredFile(FALSE, Dataset(None, None, None, None, FALSE, none)))
     @@ (file_path_of("I4") :> StoredFile(TRUE, Dataset("S2", "I4", "TEST002", "MR", FALSE, none)))

InitWL ==
  /\ WINDOW_PRESETS = PRESET_TABLE
  /\ pixel_array \in Grids
  /\ preset \in PresetNames
  /\ custom_window \in CustomWindows
  /\ custom_level \in CustomLevels
  /\ windowed = NoArray
  /\ png_bytes = <<>>
  /\ sop_uid = None
  /\ image_response = NoResponse
  /\ pc = "ready"
  /\ json_file = JsonFile(FixtureStudies)
  /\ dicom_files = FixtureFiles(pixel_array)
  /\ requests = <<>>
  /\ tmp_files = {}
  /\ dicom_dataset = NoDataset
  /\ metadata = NoMetadata
  /\ pixels = NoPixels
  /\ storage = <<>>
  /\ json_tmp = NoFile
  /\ call = NoCall
  /\ loaded = NoLoad
  /\ main_window = MainWindow
  /\ ui_event = NoEvent

\* apply_window_level working in place: the result is written into the grid
\* it was handed
Do_apply_window_level_in_place ==
  /\ pc = "ready"
  /\ windowed' = apply_window_level(WINDOW_PRESETS, pixel_array, preset,
                                    custom_window, custom_level, 0)
  /\ pixel_array' = windowed'
  /\ pc' = "windowed"
  /\ UNCHANGED <<WINDOW_PRESETS, preset, custom_window, custom_level,
                 png_bytes, sop_uid, image_response, json_file, dicom_files, upload_vars,
                 dp_vars, store_vars, ui_vars>>

\* apply_window_level(pixel_array, preset, custom_window, custom_level): the
\* function assigns only to its local names, the grid and the table are read
Do_apply_window_level ==
  /\ pc = "ready"
  /\ \E nanv \in NaNCast(
        apply_window_level(WINDOW_PRESETS, pixel_array, preset, custom_window, custom_level, 0),
        apply_window_level(WINDOW_PRESETS, pixel_array, preset, custom_window, custom_level, 1)) :
       windowed' = apply_window_level(WINDOW_PRESETS, pixel_array, preset,
                                      custom_window, custom_level, nanv)
  /\ pc' = "windowed"
  /\ UNCHANGED <<WINDOW_PRESETS, pixel_array, preset, custom_window, custom_level,
                 png_bytes, sop_uid, image_response, json_file, dicom_files, upload_vars,
                 dp_vars, store_vars, ui_vars>>

\* array_to_png_bytes on the float grid, or on the windowed 8-bit grid
Do_array_to_png_bytes ==
  /\ pc \in {"ready", "windowed"}
  /\ png_bytes' = array_to_png_bytes(IF pc = "ready" THEN pixel_array ELSE windowed)
  /\ pc' = IF pc = "ready" THEN "encoded_raw" ELSE "encoded"
  /\ UNCHANGED <<WINDOW_PRESETS, pixel_array, preset, custom_window, custom_level,
                 windowed, sop_uid, image_response, json_file, dicom_files, upload_vars,
                 dp_vars, store_vars, ui_vars>>

\* GET /image/{uid}?preset=p
get_image(uid, p) ==
  /\ \E nanv \in NaNCast(
        get_image_response(WINDOW_PRESETS, json_file, dicom_files, uid, p, 0),
        get_image_response(WINDOW_PRESETS, json_file, dicom_files, uid, p, 1)) :
       image_response' = get_image_response(WINDOW_PRESETS, json_file, dicom_files, uid, p, nanv)
  /\ sop_uid' = uid
  /\ UNCHANGED <<WINDOW_PRESETS, json_file, dicom_files, upload_vars, dp_vars, store_vars, ui_vars>>

Do_get_image ==
  /\ pc = "windowed"
  /\ \E uid \in {"I1", "I2", "I3", "I4", "nonexistent.uid"} : get_image(uid, preset)
  /\ pc' = "served"
  /\ UNCHANGED <<pixel_array, preset, custom_window, custom_level, windowed, png_bytes>>

NextWL == Do_apply_window_level \/ Do_array_to_png_bytes \/ Do_get_image

SpecWL == InitWL /\ [][NextWL]_vars

(***************************************************************************)
(* extract_metadata and get_pixel_array applied to drawn datasets.         *)
(***************************************************************************)
\* the tags extract_metadata reads
MetadataTags ==
  {"PatientID", "PatientName", "StudyInstanceUID", "StudyDate", "StudyTime",
   "StudyDescription", "Modality", "SeriesInstanceUID", "SeriesNumber",
   "SeriesDescription", "SOPInstanceUID", "InstanceNumber", "Rows", "Columns"}

\* stored 16-bit sample values
RawVals == {-2000, 0, 100, 1064, 32767}

RawGrids ==
  UNION {{ndarray("int16", sh, d) : sh \in Shapes(n), d \in [1..n -> RawVals]} : n \in 1..MaxLen}
  \cup {ndarray("uint16", <<1, 2>>, <<0, 65535>>), ndarray("uint16", <<2, 2>>, <<100, 100, 100, 100>>)}

\* a rescale tag: not in the file, a number, or present and empty (None)
TagAbsent == [t |-> "absent", v |-> 0]

RescaleSlopes == {TagAbsent, PyInt(1), PyInt(2), PyNone}

RescaleIntercepts == {TagAbsent, PyInt(0), PyInt(-1024), PyNone}

SampleDataset(raw) == Dataset("1.2.3", "1.2.3.4", "TEST001", "CT", TRUE, raw)

rescaled(ds, slope, intercept) ==
  LET d1 == IF slope = TagAbsent THEN ds ELSE with_tag(ds, "RescaleSlope", slope)
  IN IF intercept = TagAbsent THEN d1 ELSE with_tag(d1, "RescaleIntercept", intercept)

\* datasets with a grid and a rescale pair, one without pixel data, one
\* whose pixel data does not decode
PixelDatasets ==
  {rescaled(SampleDataset(raw), slope, intercept) :
     raw \in RawGrids, slope \in RescaleSlopes, intercept \in RescaleIntercepts}
  \cup {without(Dataset("1.2.3", "1.2.3.4", "TEST001", "CT", FALSE, NoArray), MetadataTags),
        [SampleDataset(NoArray) EXCEPT
           !.decode_error = "The length of the pixel data does not match the expected length"]}

\* datasets lacking any set of the tags, reading normally or raising on
\* access, and datasets with tags that are present and empty
MetadataDatasets ==
  {without(SampleDataset(ndarray("int16", <<1, 1>>, <<100>>)), absent) :
     absent \in SUBSET MetadataTags}
  \cup {[without(SampleDataset(ndarray("int16", <<1, 1>>, <<100>>)), absent)
           EXCEPT !.access_raises = TRUE] :
          absent \in {{}, {"PatientName"}, {"StudyDescription", "Rows"}}}
  \cup {[SampleDataset(ndarray("int16", <<1, 1>>, <<100>>)) EXCEPT
           !.PatientID = "", !.PatientName = PersonName(""), !.InstanceNumber = PyNone]}

InitDP ==
  /\ WINDOW_PRESETS = PRESET_TABLE
  /\ pixel_array = NoArray
  /\ preset = "default"
  /\ custom_window = PyNone
  /\ custom_level = PyNone
  /\ windowed = NoArray
  /\ png_bytes = <<>>
  /\ sop_uid = None
  /\ image_response = NoResponse
  /\ pc = "ready"
  /\ json_file = NoFile
  /\ dicom_files = <<>>
  /\ requests = <<>>
  /\ tmp_files = {}
  /\ dicom_dataset \in PixelDatasets \cup MetadataDatasets
  /\ metadata = NoMetadata
  /\ pixels = NoPixels
  /\ storage = <<>>
  /\ json_tmp = NoFile
  /\ call = NoCall
  /\ loaded = NoLoad
  /\ main_window = MainWindow
  /\ ui_event = NoEvent

Do_extract_metadata ==
  /\ pc = "ready"
  /\ metadata' = extract_metadata(dicom_dataset)
  /\ pc' = "extracted"
  /\ UNCHANGED <<WINDOW_PRESETS, pixel_array, preset, custom_window, custom_level,
                 windowed, png_bytes, sop_uid, image_response, json_file, dicom_files,
                 upload_vars, dicom_dataset, pixels, store_vars, ui_vars>>

Do_get_pixel_array ==
  /\ pc = "ready"
  /\ pixels' = get_pixel_array(dicom_dataset)
  /\ pc' = "read"
  /\ UNCHANGED <<WINDOW_PRESETS, pixel_array, preset, custom_window, custom_level,
                 windowed, png_bytes, sop_uid, image_response, json_file, dicom_files,
                 upload_vars, dicom_dataset, metadata, store_vars, ui_vars>>

NextDP == Do_extract_metadata \/ Do_get_pixel_array

SpecDP == InitDP /\ [][NextDP]_vars

(***************************************************************************)
(* The three stages called on one image while GET /image renders other     *)
(* images: the requests run the same functions on the same module-level    *)
(* table.                                                                  *)
(***************************************************************************)
\* datasets with a grid: no rescale tags, and a rescale pair
PureDatasets ==
  {SampleDataset(ndarray("int16", <<1, 2>>, <<100, 1064>>)),
   rescaled(SampleDataset(ndarray("int16", <<2, 1>>, <<0, 32767>>)), PyInt(2), PyInt(-1024)),
   rescaled(SampleDataset(ndarray("int16", <<1, 1>>, <<100>>)), PyNone, TagAbsent)}

InitPure ==
  /\ WINDOW_PRESETS = PRESET_TABLE
  /\ pixel_array \in TestGrids
  /\ preset \in PresetNames
  /\ custom_window \in CustomWindows
  /\ custom_level \in {PyNone, PyInt(40)}
  /\ windowed = NoArray
  /\ png_bytes = <<>>
  /\ sop_uid = None
  /\ image_response = NoResponse
  /\ pc = "ready"
  /\ json_file = JsonFile(FixtureStudies)
  /\ dicom_files = FixtureFiles(ndarray("float32", <<1, 3>>, <<-160, 40, 240>>))
  /\ requests = <<>>
  /\ tmp_files = {}
  /\ dicom_dataset \in PureDatasets
  /\ metadata = NoMetadata
  /\ pixels = NoPixels
  /\ storage = <<>>
  /\ json_tmp = NoFile
  /\ call = NoCall
  /\ loaded = NoLoad
  /\ main_window = MainWindow
  /\ ui_event = NoEvent

\* a GET /image request served between any two calls
get_image_meanwhile ==
  /\ image_response = NoResponse
  /\ \E uid \in {"I1", "I4", "nonexistent.uid"}, p \in {"default", "lung"} : get_image(uid, p)
  /\ UNCHANGED wl_vars

NextPure ==
  \/ Do_get_pixel_array
  \/ Do_apply_window_level
  \/ Do_array_to_png_bytes
  \/ get_image_meanwhile

SpecPure == InitPure /\ [][NextPure]_vars

(***************************************************************************)
(* Calls on one JSONStorage instance.  _save_data is taken file operation  *)
(* by file operation (open, dump and close, replace), because an instance  *)
(* constructed by another request loads the JSON file between any two of   *)
(* them: get_storage runs in the thread pool.                              *)
(***************************************************************************)
\* largest number of save_study calls
MaxSaves == 2

StudyMetadata(study_uid, study_date, modality) ==
  [study_uid |-> study_uid, patient_id |-> "TEST001", patient_name |-> "Test^Patient",
   study_date |-> study_date, modality |-> modality]

\* study metadata with the required keys, and lacking each one of them
StudyMetadatas ==
  {StudyMetadata(uid, dm[1], dm[2]) :
     uid \in {"S1", "S2"},
     dm \in {<<"20250106", "CT">>, <<"20240101", "MR">>, <<None, "CT">>}}
  \cup {without(StudyMetadata("S1", "20250106", "CT"), {field}) :
          field \in required_study_fields}

ImageMetadata(uid, number) ==
  [sop_uid |-> uid, instance_number |-> PyInt(number), file_path |-> file_path_of(uid)]

\* image lists with the required keys, and with an image lacking each one
ImageLists ==
  {<<>>, <<ImageMetadata("I1", 1), ImageMetadata("I2", 2)>>}
  \cup {<<ImageMetadata("I1", 1), without(ImageMetadata("I2", 2), {field})>> :
          field \in required_image_fields}

InitStore ==
  /\ WINDOW_PRESETS = PRESET_TABLE
  /\ pixel_array = NoArray
  /\ preset = "default"
  /\ custom_window = PyNone
  /\ custom_level = PyNone
  /\ windowed = NoArray
  /\ png_bytes = <<>>
  /\ sop_uid = None
  /\ image_response = NoResponse
  /\ pc = "ready"
  /\ json_file = NoFile
  /\ dicom_files = <<>>
  /\ requests = <<>>
  /\ tmp_files = {}
  /\ dicom_dataset = NoDataset
  /\ metadata = NoMetadata
  /\ pixels = NoPixels
  /\ storage = load_data(json_file)
  /\ json_tmp = NoFile
  /\ call = NoCall
  /\ loaded = NoLoad
  /\ main_window = MainWindow
  /\ ui_event = NoEvent

\* what the model leaves alone in the calls on the instance
store_frame ==
  <<WINDOW_PRESETS, wl_vars, sop_uid, image_response, dicom_files, upload_vars, dp_vars,
    ui_vars>>

\* save_study(study_metadata, images_metadata) up to open(temp_path, 'w') of
\* _save_data (lines 97-136 and 70-71); open_ok is whether the open succeeds
store_save_study ==
  /\ call.pc = "done"
  /\ call.n < MaxSaves
  /\ \E study_metadata \in StudyMetadatas, images_metadata \in ImageLists, open_ok \in BOOLEAN :
       LET saved == save_study(storage, study_metadata, images_metadata)
           opened == save_data_open(json_file, json_tmp)
           begun == [op |-> "save_study", pc |-> "done", n |-> call.n + 1,
                     study_metadata |-> study_metadata,
                     images_metadata |-> images_metadata, modality |-> None,
                     result |-> [status |-> saved.status, value |-> saved.value]]
       IN /\ storage' = saved.data
          /\ IF saved.status = "raised"
             THEN call' = begun /\ UNCHANGED <<json_file, json_tmp>>
             ELSE IF ~open_ok
             THEN /\ call' = [begun EXCEPT !.result = Raised([type |-> "OSError",
                                                               message |-> <<>>])]
                  /\ UNCHANGED <<json_file, json_tmp>>
             ELSE /\ call' = [begun EXCEPT !.pc = "dumping", !.result = [status |-> "none"]]
                  /\ json_file' = opened.json_file
                  /\ json_tmp' = opened.json_tmp
  /\ loaded' = NoLoad
  /\ UNCHANGED <<store_frame, pc>>

\* json.dump(self.data, f) and the close of the temporary file (line 72);
\* when it raises, the handler unlinks the temporary file and re-raises
store_save_data_dump ==
  /\ call.pc = "dumping"
  /\ \E dump_ok \in BOOLEAN :
       IF dump_ok
       THEN /\ json_tmp' = JsonFile(storage)
            /\ call' = [call EXCEPT !.pc = "replacing"]
       ELSE /\ json_tmp' = NoFile
            /\ call' = [call EXCEPT !.pc = "done",
                                    !.result = Raised([type |-> "TypeError",
                                                       message |-> <<>>])]
  /\ UNCHANGED <<store_frame, pc, json_file, storage, loaded>>

\* temp_path.replace(self.json_path) (line 75) and the return of save_study
store_save_data_replace ==
  /\ call.pc = "replacing"
  /\ \E replace_ok \in BOOLEAN :
       IF replace_ok
       THEN /\ json_file' = save_data_replace(json_file, json_tmp).json_file
            /\ json_tmp' = save_data_replace(json_file, json_tmp).json_tmp
            /\ call' = [call EXCEPT !.pc = "done", !.result = Ok(None)]
       ELSE /\ json_tmp' = NoFile
            /\ UNCHANGED json_file
            /\ call' = [call EXCEPT !.pc = "done",
                                    !.result = Raised([type |-> "OSError",
                                                       message |-> <<>>])]
  /\ UNCHANGED <<store_frame, pc, storage, loaded>>

\* JSONStorage(json_path) constructed by another request, at any moment of
\* the call: __init__ loads the JSON file (lines 36, 46-49)
store_new_instance ==
  /\ ~loaded.valid
  /\ call.op = "save_study"
  /\ loaded' = [valid |-> TRUE, at |-> call.pc, partial |-> json_file.partial,
                data |-> load_data(json_file)]
  /\ UNCHANGED <<store_frame, pc, json_file, json_tmp, storage, call>>

\* get_studies(modality)
store_get_studies ==
  /\ call.op = "none"
  /\ \E modality \in {None, "", "CT", "MR", "US"} :
       call' = [op |-> "get_studies", pc |-> "done", n |-> call.n,
                study_metadata |-> <<>>, images_metadata |-> <<>>,
                modality |-> modality, result |-> Ok(get_studies(storage, modality))]
  /\ loaded' = NoLoad
  /\ UNCHANGED <<store_frame, pc, json_file, json_tmp, storage>>

NextStore ==
  \/ store_save_study
  \/ store_save_data_dump
  \/ store_save_data_replace
  \/ store_new_instance

SpecStore == InitStore /\ [][NextStore]_vars

(***************************************************************************)
(* get_studies on the stores a sequence of saves leaves.                   *)
(***************************************************************************)
\* largest number of studies of an enumerated store
MaxStudies == 3

\* study dates: YYYYMMDD, a day the month does not have, other forms, empty
\* and None
StudyDates == {"20250106", "20240101", "20250230", "2025-01-06", "2025116", "", None}

\* the stores with n studies
Stores(n) ==
  {[i \in 1..n |->
      [study_uid |-> <<"S1", "S2", "S3", "S4">>[i], patient_id |-> "TEST001",
       patient_name |-> "Test^Patient", study_date |-> dm[i][1], modality |-> dm[i][2],
       images |-> <<>>]] :
     dm \in [1..n -> StudyDates \X {"CT", "MR"}]}

InitQuery ==
  /\ WINDOW_PRESETS = PRESET_TABLE
  /\ pixel_array = NoArray
  /\ preset = "default"
  /\ custom_window = PyNone
  /\ custom_level = PyNone
  /\ windowed = NoArray
  /\ png_bytes = <<>>
  /\ sop_uid = None
  /\ image_response = NoResponse
  /\ pc = "ready"
  /\ storage \in UNION {Stores(n) : n \in 0..MaxStudies}
  /\ json_file = JsonFile(storage)
  /\ dicom_files = <<>>
  /\ requests = <<>>
  /\ tmp_files = {}
  /\ dicom_dataset = NoDataset
  /\ metadata = NoMetadata
  /\ pixels = NoPixels
  /\ json_tmp = NoFile
  /\ call = NoCall
  /\ loaded = NoLoad
  /\ main_window = MainWindow
  /\ ui_event = NoEvent

SpecQuery == InitQuery /\ [][store_get_studies]_vars

(***************************************************************************)
(* get_image_metadata on stores whose studies hold images.                 *)
(***************************************************************************)
\* the image lists of a study: none, one, two in either order; the same
\* sop_uid can be stored under two studies
LookupImages ==
  {<<>>, <<ImageMetadata("I1", 1)>>, <<ImageMetadata("I2", 2)>>,
   <<ImageMetadata("I1", 1), ImageMetadata("I2", 2)>>,
   <<ImageMetadata("I2", 1), ImageMetadata("I3", 2)>>,
   <<[sop_uid |-> "I3", instance_number |-> PyNone, file_path |-> file_path_of("I3")]>>}

\* the stores of up to MaxStudies studies with such image lists
LookupStores ==
  UNION {{[i \in 1..n |->
             [study_uid |-> <<"S1", "S2", "S3", "S4">>[i],
              patient_id |-> <<"TEST001", "TEST002", "TEST003", "TEST004">>[i],
              patient_name |-> <<"Test^Patient", "Doe^John", "Roe^Jane", "Test^Patient">>[i],
              study_date |-> "20250106", modality |-> "CT", images |-> imgs[i]]] :
            imgs \in [1..n -> LookupImages]} : n \in 0..MaxStudies}

InitLookup ==
  /\ WINDOW_PRESETS = PRESET_TABLE
  /\ pixel_array = NoArray
  /\ preset = "default"
  /\ custom_window = PyNone
  /\ custom_level = PyNone
  /\ windowed = NoArray
  /\ png_bytes = <<>>
  /\ sop_uid = None
  /\ image_response = NoResponse
  /\ pc = "ready"
  /\ storage \in LookupStores
  /\ json_file = JsonFile(storage)
  /\ dicom_files = <<>>
  /\ requests = <<>>
  /\ tmp_files = {}
  /\ dicom_dataset = NoDataset
  /\ metadata = NoMetadata
  /\ pixels = NoPixels
  /\ json_tmp = NoFile
  /\ call = NoCall
  /\ loaded = NoLoad
  /\ main_window = MainWindow
  /\ ui_event = NoEvent

\* get_image_metadata(uid)
store_get_image_metadata ==
  /\ call.op = "none"
  /\ \E uid \in {"I1", "I2", "I3", "nonexistent.uid"} :
       /\ call' = [op |-> "get_image_metadata", pc |-> "done", n |-> call.n,
                   study_metadata |-> <<>>, images_metadata |-> <<>>, modality |-> None,
                   result |-> Ok(get_image_metadata(storage, uid))]
       /\ sop_uid' = uid
  /\ UNCHANGED <<WINDOW_PRESETS, wl_vars, image_response, dicom_files, upload_vars,
                 dp_vars, json_file, json_tmp, storage, loaded, ui_vars>>

SpecLookup == InitLookup /\ [][store_get_image_metadata]_vars

(***************************************************************************)
(* Concurrent uploads.  get_storage builds a JSONStorage per request (it   *)
(* runs in the thread pool before the handler), the handler awaits         *)
(* file.read() before each file and runs without suspension from the last  *)
(* read to the response.                                                   *)
(***************************************************************************)
\* largest number of files of one upload request
MaxFiles == 2

\* the requests in flight
Requests == {1, 2}

NoGrid == ndarray("none", <<0, 0>>, <<>>)

\* the files a client uploads
UploadContents ==
  {StoredFile(TRUE, Dataset("S1", "I1", "TEST001", "CT", TRUE,
                            ndarray("int16", <<1, 2>>, <<-1024, 40>>))),
   StoredFile(TRUE, Dataset("S1", "I2", "TEST001", "CT", TRUE,
                            ndarray("int16", <<1, 2>>, <<40, 240>>))),
   StoredFile(TRUE, Dataset("S2", "I3", "TEST002", "MR", TRUE,
                            ndarray("int16", <<1, 1>>, <<500>>))),
   StoredFile(FALSE, Dataset(None, None, None, None, FALSE, NoGrid))}

UploadBodies == UNION {[1..n -> UploadContents] : n \in 1..MaxFiles}

IdleRequest ==
  [pc |-> "idle", files |-> <<>>, i |-> 0, storage_data |-> <<>>,
   studies_data |-> <<>>, status_code |-> 0, responses |-> <<>>]

InitUpload ==
  /\ WINDOW_PRESETS = PRESET_TABLE
  /\ pixel_array = NoArray
  /\ preset = "default"
  /\ custom_window = PyNone
  /\ custom_level = PyNone
  /\ windowed = NoArray
  /\ png_bytes = <<>>
  /\ sop_uid = None
  /\ image_response = NoResponse
  /\ pc = "ready"
  /\ json_file = NoFile
  /\ dicom_files = <<>>
  /\ requests = [r \in Requests |-> IdleRequest]
  /\ tmp_files = {}
  /\ dicom_dataset = NoDataset
  /\ metadata = NoMetadata
  /\ pixels = NoPixels
  /\ storage = <<>>
  /\ json_tmp = NoFile
  /\ call = NoCall
  /\ loaded = NoLoad
  /\ main_window = MainWindow
  /\ ui_event = NoEvent

\* a request arrives: Depends(get_storage) constructs JSONStorage(), which
\* loads the JSON file (api.py lines 84-91, storage.py line 36)
upload_get_storage(r, bodies) ==
  /\ requests[r].pc = "idle"
  /\ \E files \in bodies :
       requests' = [requests EXCEPT ![r] =
                      [@ EXCEPT !.pc = "reading", !.files = files, !.i = 1,
                                !.storage_data = load_data(json_file)]]
  /\ UNCHANGED <<WINDOW_PRESETS, wl_vars, sop_uid, image_response, json_file,
                 dicom_files, tmp_files, dp_vars, store_vars, ui_vars>>

\* the handler resumes after await file.read() of file i: it processes the
\* file and, after the last file, saves the studies and responds
upload_dicom_files(r) ==
  /\ requests[r].pc = "reading"
  /\ LET req == requests[r]
         content == req.files[req.i]
     IN \E copy_ok \in BOOLEAN :
          LET step == process_file(req.studies_data, content, copy_ok)
              path == file_path_of(getattr(content.ds, "SOPInstanceUID", None))
              stored == IF step.copied
                        THEN [q \in DOMAIN dicom_files \cup {path} |->
                                IF q = path THEN content ELSE dicom_files[q]]
                        ELSE dicom_files
              tmp == IF step.unlinked THEN tmp_files ELSE tmp_files \cup {<<r, req.i>>}
          IN IF step.status_code # 0
             THEN /\ requests' = [requests EXCEPT ![r] =
                                    [@ EXCEPT !.pc = "done", !.status_code = step.status_code]]
                  /\ dicom_files' = stored
                  /\ tmp_files' = tmp
                  /\ UNCHANGED json_file
             ELSE IF req.i < Len(req.files)
             THEN /\ requests' = [requests EXCEPT ![r] =
                                    [@ EXCEPT !.i = req.i + 1,
                                              !.studies_data = step.studies_data]]
                  /\ dicom_files' = stored
                  /\ tmp_files' = tmp
                  /\ UNCHANGED json_file
             ELSE \E fail_at \in 0..Len(step.studies_data) :
                    LET done == save_all(req.storage_data, json_file,
                                         step.studies_data, 1, fail_at)
                    IN /\ requests' = [requests EXCEPT ![r] =
                                         [@ EXCEPT !.pc = "done",
                                                   !.studies_data = step.studies_data,
                                                   !.storage_data = done.data,
                                                   !.status_code = done.status_code,
                                                   !.responses = done.responses]]
                       /\ json_file' = done.file
                       /\ dicom_files' = stored
                       /\ tmp_files' = tmp
  /\ UNCHANGED <<WINDOW_PRESETS, wl_vars, sop_uid, image_response, dp_vars, store_vars, ui_vars>>

NextUpload ==
  \E r \in Requests : upload_get_storage(r, UploadBodies) \/ upload_dicom_files(r)

SpecUpload == InitUpload /\ [][NextUpload]_vars

(***************************************************************************)
(* One upload request, with files that lack identifiers.                   *)
(***************************************************************************)
\* the files a client uploads, and files without StudyInstanceUID, with an
\* empty one, without SOPInstanceUID, one on which reading a tag raises, and
\* files without one of the optional tags
IngestContents ==
  UploadContents
  \cup {StoredFile(TRUE, without(Dataset("S1", "I5", "TEST001", "CT", TRUE, NoGrid),
                                 {"StudyInstanceUID"})),
        StoredFile(TRUE, Dataset("", "I6", "TEST001", "CT", TRUE, NoGrid)),
        StoredFile(TRUE, without(Dataset("S2", "I7", "TEST002", "MR", TRUE, NoGrid),
                                 {"SOPInstanceUID"})),
        StoredFile(TRUE, [Dataset("S2", "I8", "TEST002", "MR", TRUE, NoGrid)
                            EXCEPT !.access_raises = TRUE])}
  \cup {StoredFile(TRUE, without(Dataset("S3", "I9", "TEST003", "CT", TRUE, NoGrid), {tag})) :
          tag \in {"StudyDate", "Modality", "PatientID", "InstanceNumber"}}

InitIngest ==
  /\ WINDOW_PRESETS = PRESET_TABLE
  /\ pixel_array = NoArray
  /\ preset = "default"
  /\ custom_window = PyNone
  /\ custom_level = PyNone
  /\ windowed = NoArray
  /\ png_bytes = <<>>
  /\ sop_uid = None
  /\ image_response = NoResponse
  /\ pc = "ready"
  /\ json_file = NoFile
  /\ dicom_files = <<>>
  /\ requests = <<IdleRequest>>
  /\ tmp_files = {}
  /\ dicom_dataset = NoDataset
  /\ metadata = NoMetadata
  /\ pixels = NoPixels
  /\ storage = <<>>
  /\ json_tmp = NoFile
  /\ call = NoCall
  /\ loaded = NoLoad
  /\ main_window = MainWindow
  /\ ui_event = NoEvent

NextIngest ==
  \/ upload_get_storage(1, UNION {[1..n -> IngestContents] : n \in 1..MaxFiles})
  \/ upload_dicom_files(1)

SpecIngest == InitIngest /\ [][NextIngest]_vars

(***************************************************************************)
(* One upload request, then the studies read back over the API.            *)
(***************************************************************************)
\* GET /studies, once the upload has been answered
api_get_studies ==
  /\ requests[1].pc = "done"
  /\ image_response' = get_studies_response(json_file)
  /\ sop_uid' = None
  /\ UNCHANGED <<WINDOW_PRESETS, wl_vars, json_file, dicom_files, upload_vars, dp_vars,
                 store_vars, ui_vars>>

\* GET /studies/{study_uid}
api_get_study_detail ==
  /\ requests[1].pc = "done"
  /\ \E study_uid \in {"S1", "S2", "S3", "nonexistent.uid"} :
       /\ image_response' = get_study_detail_response(json_file, study_uid)
       /\ sop_uid' = study_uid
  /\ UNCHANGED <<WINDOW_PRESETS, wl_vars, json_file, dicom_files, upload_vars, dp_vars,
                 store_vars, ui_vars>>

NextReadBack == NextIngest \/ api_get_studies \/ api_get_study_detail

SpecReadBack == InitIngest /\ [][NextReadBack]_vars

(***************************************************************************)
(* main_window.py: the viewer window.  Every handler runs to completion on  *)
(* the GUI thread; the file of the backend does not change, so storage      *)
(* holds what the JSONStorage of every request loads from it; any request   *)
(* may fail on the network.                                                 *)
(***************************************************************************)
MaxImages == 3

\* the studies the backend holds: one of MaxImages images, one of a single
\* image, one without images, and one whose detail the endpoint answers with
\* 500 (an image without instance number)
ViewerStudies ==
  <<[study_uid |-> "S1", patient_id |-> "TEST001", patient_name |-> "Test^Patient",
     study_date |-> "20250106", modality |-> "CT",
     images |-> [i \in 1..MaxImages |-> ImageMetadata("A" \o ToString(i), i)]],
    [study_uid |-> "S2", patient_id |-> "TEST002", patient_name |-> "Other^Patient",
     study_date |-> "20240101", modality |-> "MR",
     images |-> <<ImageMetadata("B1", 1)>>],
    [study_uid |-> "S3", patient_id |-> "TEST003", patient_name |-> "Third^Patient",
     study_date |-> "20250106", modality |-> "CT", images |-> <<>>],
    [study_uid |-> "S4", patient_id |-> "TEST004", patient_name |-> "Fourth^Patient",
     study_date |-> "20240101", modality |-> "CT",
     images |-> <<[sop_uid |-> "D1", instance_number |-> PyNone,
                   file_path |-> file_path_of("D1")]>>]>>

\* api_client.py get_study_detail: the body of a 200 answer, RuntimeError on
\* 404, on any other status and on a network error
client_get_study_detail(data, study_uid, network_ok) ==
  IF network_ok /\ get_study_detail_of(data, study_uid).status_code = 200
  THEN Ok(get_study_detail_of(data, study_uid).body)
  ELSE Raised("RuntimeError")

\* refresh_studies: the data of the items of studies_list are the study
\* summaries GET /studies answers with
studies_list(data) ==
  LET body == get_studies_of(data).body
  IN {body[i] : i \in 1..Len(body)}

\* show_image: with images, fetches the image at current_index and, when the
\* fetch succeeds, shows it and its position; every error is caught
show_image(window, image_ok) ==
  IF window.current_images = <<>> THEN window
  ELSE LET image == window.current_images[window.current_index + 1]
       IN IF image_ok
          THEN [window EXCEPT !.image_label = image.sop_uid,
                              !.position_label = <<window.current_index + 1,
                                                   Len(window.current_images)>>]
          ELSE window

InitViewer ==
  /\ WINDOW_PRESETS = PRESET_TABLE
  /\ pixel_array = NoArray
  /\ preset = "default"
  /\ custom_window = PyNone
  /\ custom_level = PyNone
  /\ windowed = NoArray
  /\ png_bytes = <<>>
  /\ sop_uid = None
  /\ image_response = NoResponse
  /\ pc = "ready"
  /\ json_file = JsonFile(ViewerStudies)
  /\ storage = load_data(json_file)
  /\ dicom_files = <<>>
  /\ requests = <<>>
  /\ tmp_files = {}
  /\ dicom_dataset = NoDataset
  /\ metadata = NoMetadata
  /\ pixels = NoPixels
  /\ json_tmp = NoFile
  /\ call = NoCall
  /\ loaded = NoLoad
  /\ main_window = MainWindow
  /\ ui_event = NoEvent

\* what no handler of the viewer changes
viewer_frame ==
  <<WINDOW_PRESETS, wl_vars, sop_uid, image_response, json_file, dicom_files, upload_vars,
    dp_vars, store_vars>>

\* on_study_selected: an item without data changes nothing; otherwise the
\* study is stored first, and a failing get_study_detail leaves the images
\* and the index as they were
on_study_selected ==
  \E item \in studies_list(storage) \cup {NoStudy}, detail_ok \in BOOLEAN,
     image_ok \in BOOLEAN :
    /\ ui_event' = [name |-> "on_study_selected", detail_ok |-> detail_ok,
                    image_ok |-> image_ok]
    /\ \/ /\ item = NoStudy
          /\ main_window' = main_window
       \/ /\ item # NoStudy
          /\ \E study_detail \in {client_get_study_detail(storage, item.study_uid, detail_ok)} :
               LET selected == [main_window EXCEPT !.current_study = item]
                   opened == [selected EXCEPT !.current_images = study_detail.value.images,
                                              !.current_index = 0]
               IN main_window' =
                    IF study_detail.status = "raised" THEN selected
                    ELSE IF opened.current_images # <<>> THEN show_image(opened, image_ok)
                    ELSE [opened EXCEPT !.image_label = "No images in study",
                                        !.position_label = <<0, 0>>]
    /\ UNCHANGED viewer_frame

\* next_image without the test of the position
next_image_unguarded ==
  \E image_ok \in BOOLEAN :
    /\ ui_event' = [name |-> "next_image", detail_ok |-> TRUE, image_ok |-> image_ok]
    /\ main_window' =
         [main_window EXCEPT !.current_index = main_window.current_index + 1]
    /\ UNCHANGED viewer_frame

\* next_image: moves and shows only when an image follows
next_image ==
  \E image_ok \in BOOLEAN :
    /\ ui_event' = [name |-> "next_image", detail_ok |-> TRUE, image_ok |-> image_ok]
    /\ main_window' =
         IF /\ main_window.current_images # <<>>
            /\ main_window.current_index < Len(main_window.current_images) - 1
         THEN show_image([main_window EXCEPT !.current_index = main_window.current_index + 1],
                         image_ok)
         ELSE main_window
    /\ UNCHANGED viewer_frame

\* previous_image: moves and shows only when an image precedes
previous_image ==
  \E image_ok \in BOOLEAN :
    /\ ui_event' = [name |-> "previous_image", detail_ok |-> TRUE, image_ok |-> image_ok]
    /\ main_window' =
         IF main_window.current_images # <<>> /\ main_window.current_index > 0
         THEN show_image([main_window EXCEPT !.current_index = main_window.current_index - 1],
                         image_ok)
         ELSE main_window
    /\ UNCHANGED viewer_frame

\* apply_preset: the preset buttons offer default, lung, bone and brain
\* (lines 156-170)
apply_preset ==
  \E name \in {"default", "lung", "bone", "brain"}, image_ok \in BOOLEAN :
    /\ ui_event' = [name |-> "apply_preset", detail_ok |-> TRUE, image_ok |-> image_ok]
    /\ main_window' = show_image([main_window EXCEPT !.current_preset = name], image_ok)
    /\ UNCHANGED viewer_frame

NextViewer == on_study_selected \/ next_image \/ previous_image \/ apply_preset

SpecViewer == InitViewer /\ [][NextViewer]_vars

(***************************************************************************)
(* Properties of the window/level mapper and the raster encoder.           *)
(***************************************************************************)
\* the (width, level) the specification's resolution order selects
SpecWindow ==
  IF custom_window.t # "None" /\ custom_level.t # "None"
  THEN [window |-> custom_window, level |-> custom_level]
  ELSE CASE preset = "default" -> [window |-> PyInt(400), level |-> PyInt(40)]
         [] preset = "lung" -> [window |-> PyInt(1500), level |-> PyInt(-600)]
         [] preset = "bone" -> [window |-> PyInt(2000), level |-> PyInt(300)]
         [] preset = "brain" -> [window |-> PyInt(80), level |-> PyInt(40)]
         [] preset = "liver" -> [window |-> PyInt(150), level |-> PyInt(30)]
         [] OTHER -> [window |-> PyInt(400), level |-> PyInt(40)]

\* trunc(clip((v - (level - width/2)) / width, 0, 1) * 255) in integers
SpecDisplay(v, width, level) ==
  LET x == 2 * (v - level) + width
  IN IF x <= 0 THEN 0
     ELSE IF x >= 2 * width THEN 255
     ELSE (255 * x) \div (2 * width)

\* trunc((v - min) / (max - min) * 255) in integers, for max > min
SpecMinMax(v, lo, hi) == (255 * (v - lo)) \div (hi - lo)

Samples == 1..Len(pixel_array.data)

Called == pc \in {"windowed", "encoded", "served"}

\* the window the call worked with
UsedWindow == resolve_window(WINDOW_PRESETS, preset, custom_window, custom_level)

NumericWindow == UsedWindow.window.t = "int" /\ UsedWindow.level.t = "int"

\* C1: apply_window_level works with the custom pair when both values are
\* given, else with the values of a recognized preset name (400/40,
\* 1500/-600, 2000/300, 80/40, 150/30), else with the default 400/40
C1_ResolutionOrder ==
  (Called /\ SpecWindow.window.t = "int" /\ SpecWindow.level.t = "int"
          /\ SpecWindow.window.v # 0)
  => /\ Len(windowed.data) = Len(pixel_array.data)
     /\ \A i \in Samples :
          windowed.data[i] =
            window_sample(pixel_array.data[i], SpecWindow.window.v, SpecWindow.level.v, 0)

C1_Witness ==
  /\ pc = "windowed"
  /\ preset = "lung" /\ custom_window = PyInt(1000) /\ custom_level = PyInt(500)
  /\ pixel_array.data = <<0, 500, 1000>>
  /\ windowed.data = <<0, 127, 255>>

\* C2: for a window of positive width every sample v maps to
\* trunc(clip((v - (level - width/2)) / width, 0, 1) * 255); the default
\* preset maps [-1024, -160, 40, 240, 3071] to [0, 0, 127, 255, 255]
C2_TruncatingFormula ==
  /\ (Called /\ NumericWindow /\ UsedWindow.window.v > 0)
     => \A i \in Samples :
          windowed.data[i] =
            SpecDisplay(pixel_array.data[i], UsedWindow.window.v, UsedWindow.level.v)
  /\ (Called /\ pixel_array.data = <<-1024, -160, 40, 240, 3071>> /\ preset = "default"
             /\ custom_window = PyNone /\ custom_level = PyNone)
     => windowed.data = <<0, 0, 127, 255, 255>>

C2_Witness ==
  /\ pc = "windowed"
  /\ pixel_array.data = <<-1024, -160, 40, 240, 3071>>
  /\ preset = "default" /\ custom_window = PyNone /\ custom_level = PyNone
  /\ windowed.data = <<0, 0, 127, 255, 255>>

\* C3: under any window of positive width a sample equal to the level maps
\* to 127
C3_Midpoint ==
  (Called /\ NumericWindow /\ UsedWindow.window.v > 0)
  => \A i \in Samples :
       pixel_array.data[i] = UsedWindow.level.v => windowed.data[i] = 127

C3_Witness ==
  /\ pc = "windowed"
  /\ preset = "lung" /\ custom_window = PyNone
  /\ pixel_array.data = <<-1024, -600, 0, 500>>
  /\ windowed.data[2] = 127

\* C4: under any window of positive width a sample at or below
\* level - width/2 maps to 0 and a sample at or above level + width/2 maps
\* to 255
C4_Boundaries ==
  (Called /\ NumericWindow /\ UsedWindow.window.v > 0)
  => \A i \in Samples :
       LET v == pixel_array.data[i]
           width == UsedWindow.window.v
           level == UsedWindow.level.v
       IN /\ 2 * v <= 2 * level - width => windowed.data[i] = 0
          /\ 2 * v >= 2 * level + width => windowed.data[i] = 255

C4_Witness ==
  /\ pc = "windowed"
  /\ preset = "bone" /\ custom_level = PyNone
  /\ pixel_array.data = <<-700, 300, 1300>>
  /\ windowed.data[1] = 0 /\ windowed.data[3] = 255

RecognizedPresets == {"default", "lung", "bone", "brain", "liver"}

\* C5: with no custom window, a preset name outside default, lung, bone,
\* brain, liver gives the output of the default preset, and GET /image with
\* such a name is answered as with preset=default, never rejected
C5_PresetFallback ==
  (preset \notin RecognizedPresets)
  => /\ (Called /\ custom_window = PyNone /\ custom_level = PyNone)
        => windowed = apply_window_level(WINDOW_PRESETS, pixel_array, "default",
                                         PyNone, PyNone, 0)
     /\ pc = "served"
        => /\ image_response =
                get_image_response(WINDOW_PRESETS, json_file, dicom_files, sop_uid,
                                   "default", 0)
           /\ image_response.status_code \in {200, 404, 500}
           /\ sop_uid = "I1" => image_response.status_code = 200

C5_Witness ==
  /\ pc = "served"
  /\ preset = "Lung" /\ custom_window = PyNone /\ custom_level = PyNone
  /\ pixel_array.data = <<-1024, -600, 0, 500>>
  /\ windowed.data = <<0, 0, 102, 255>>
  /\ sop_uid = "I1"
  /\ image_response.status_code = 200
  /\ image_response.body = PNG_SIGNATURE \o <<4, 1>> \o <<0, 0, 102, 255>>

\* the try block of apply_window_level failed, or the window width is zero
TransformFails ==
  \/ UsedWindow.window.t = "bad"
  \/ UsedWindow.level.t = "bad"
  \/ UsedWindow.window = PyInt(0)

\* C7: when the transform fails, a zero width included, the result is the
\* min-max normalisation (v - min) / (max - min) * 255 of the grid
C7_FallbackIsMinMax ==
  (Called /\ TransformFails /\ seq_max(pixel_array.data) > seq_min(pixel_array.data))
  => \A i \in Samples :
       windowed.data[i] = SpecMinMax(pixel_array.data[i], seq_min(pixel_array.data),
                                     seq_max(pixel_array.data))

\* C8: the fallback path on a grid of identical values returns an all-zero
\* grid
C8_ConstantFallbackZero ==
  (Called /\ (UsedWindow.window.t = "bad" \/ UsedWindow.level.t = "bad")
          /\ seq_max(pixel_array.data) = seq_min(pixel_array.data))
  => \A i \in Samples : windowed.data[i] = 0

\* the bytes of a PNG of the given shape and samples
SpecPng(shape, data) == <<137, 80, 78, 71, 13, 10, 26, 10>> \o <<shape[2], shape[1]>> \o data

\* C9: array_to_png_bytes encodes a constant non-8-bit grid as zeros of the
\* same dimensions, min-max scales a non-constant one (minimum to 0, maximum
\* to 255) and encodes an 8-bit grid unchanged
C9_EncodeNormalises ==
  /\ pc = "encoded_raw"
     => LET lo == seq_min(pixel_array.data)
            hi == seq_max(pixel_array.data)
        IN /\ hi = lo => png_bytes = SpecPng(pixel_array.shape, [i \in Samples |-> 0])
           /\ hi > lo =>
                /\ png_bytes = SpecPng(pixel_array.shape,
                                       [i \in Samples |-> SpecMinMax(pixel_array.data[i], lo, hi)])
                /\ \A i \in Samples :
                     /\ pixel_array.data[i] = lo => png_bytes[10 + i] = 0
                     /\ pixel_array.data[i] = hi => png_bytes[10 + i] = 255
  /\ pc = "encoded" => png_bytes = SpecPng(windowed.shape, windowed.data)

C9_Witness ==
  /\ pc = "encoded_raw"
  /\ pixel_array.data = <<40, 40>>
  /\ png_bytes = <<137, 80, 78, 71, 13, 10, 26, 10, 2, 1, 0, 0>>

\* C10: apply_window_level returns an 8-bit grid of the dimensions of the
\* input with every element in 0..255, on every path
C10_DisplayGrid ==
  Called => /\ windowed.dtype = "uint8"
            /\ windowed.shape = pixel_array.shape
            /\ Len(windowed.data) = Len(pixel_array.data)
            /\ \A i \in Samples : windowed.data[i] \in 0..255

C10_Witness ==
  /\ pc = "windowed"
  /\ custom_window = PyBad /\ custom_level = PyInt(40)
  /\ pixel_array.shape = <<2, 1>>
  /\ pixel_array.data = <<-160, 240>>
  /\ windowed = ndarray("uint8", <<2, 1>>, <<0, 255>>)

\* exactly one of custom_window and custom_level was supplied
PartialCustom == (custom_window.t = "None") # (custom_level.t = "None")

\* C11: when exactly one of custom_window and custom_level is supplied the
\* supplied value is not used: the result is that of the call with neither,
\* the named preset or default for an unrecognized name
C11_PartialCustomIgnored ==
  (Called /\ PartialCustom)
  => /\ windowed = apply_window_level(WINDOW_PRESETS, pixel_array, preset,
                                      PyNone, PyNone, 0)
     /\ \A i \in Samples :
          windowed.data[i] =
            SpecDisplay(pixel_array.data[i],
                        IF preset \in RecognizedPresets
                        THEN WINDOW_PRESETS[preset].window ELSE 400,
                        IF preset \in RecognizedPresets
                        THEN WINDOW_PRESETS[preset].level ELSE 40)

C11_Witness ==
  /\ pc = "windowed"
  /\ preset = "lung" /\ custom_window = PyInt(1000) /\ custom_level = PyNone
  /\ pixel_array.data = <<-1024, -600, 0, 500>>
  /\ windowed.data = <<55, 127, 229, 255>>

RequestedImages ==
  {img \in UNION {{load_data(json_file)[i].images[j] :
                     j \in 1..Len(load_data(json_file)[i].images)} :
                   i \in 1..Len(load_data(json_file))} : img.sop_uid = sop_uid}

\* the parts of the detail of the response
DetailParts == {image_response.detail[i] : i \in 1..Len(image_response.detail)}

SpecSlope ==
  IF "RescaleSlope" \in DOMAIN dicom_dataset THEN dicom_dataset.RescaleSlope ELSE PyInt(1)

SpecIntercept ==
  IF "RescaleIntercept" \in DOMAIN dicom_dataset THEN dicom_dataset.RescaleIntercept
  ELSE PyInt(0)

\* get_pixel_array was called on a dataset whose sample grid decodes
ReadGrid == pc = "read" /\ dicom_dataset.has_pixel_array /\ dicom_dataset.decode_error = ""

\* C12: for every raw grid and every rescale pair get_pixel_array returns a
\* float grid of the same dimensions whose every element is
\* raw * slope + intercept; for slope 1 and intercept 0 it is the float cast
\* of the raw grid
C12_RescaleLinear ==
  (ReadGrid /\ SpecSlope.t = "int" /\ SpecIntercept.t = "int")
  => /\ pixels.status = "ok"
     /\ pixels.value.dtype = "float32"
     /\ pixels.value.shape = dicom_dataset.pixel_array.shape
     /\ Len(pixels.value.data) = Len(dicom_dataset.pixel_array.data)
     /\ \A i \in 1..Len(dicom_dataset.pixel_array.data) :
          pixels.value.data[i] =
            dicom_dataset.pixel_array.data[i] * SpecSlope.v + SpecIntercept.v
     /\ (SpecSlope.v = 1 /\ SpecIntercept.v = 0)
        => pixels.value = ndarray("float32", dicom_dataset.pixel_array.shape,
                                  dicom_dataset.pixel_array.data)

C12_Witness ==
  /\ pc = "read"
  /\ dicom_dataset.pixel_array = ndarray("int16", <<2, 1>>, <<100, 1064>>)
  /\ SpecSlope = PyInt(2) /\ SpecIntercept = PyInt(-1024)
  /\ pixels = Ok(ndarray("float32", <<2, 1>>, <<-824, 1104>>))

\* the parts of the message of the error get_pixel_array raised
MessageParts == {pixels.value.message[i] : i \in 1..Len(pixels.value.message)}

\* C13: on a dataset without sample grid get_pixel_array raises ValueError
\* with a message that mentions that the dataset does not contain pixel
\* data, and returns no grid; any other failure of the extraction is raised
\* as ValueError with the message of its cause embedded
C13_PixelDataError ==
  pc = "read"
  => /\ (dicom_dataset.decode_error = "" /\ ~dicom_dataset.has_pixel_array)
        => /\ pixels.status = "raised"
           /\ pixels.value.type = "ValueError"
           /\ "DICOM dataset does not contain pixel data" \in MessageParts
     /\ dicom_dataset.decode_error # ""
        => /\ pixels.status = "raised"
           /\ pixels.value.type = "ValueError"
           /\ dicom_dataset.decode_error \in MessageParts
     /\ (ReadGrid /\ (SpecSlope.t = "None" \/ SpecIntercept.t = "None"))
        => /\ pixels.status = "raised"
           /\ pixels.value.type = "ValueError"
           /\ "unsupported operand type(s)" \in MessageParts

C13_Witness ==
  /\ pc = "read"
  /\ ~dicom_dataset.has_pixel_array
  /\ pixels = Raised(ValueError(<<"Error processing pixel data: ",
                                  "DICOM dataset does not contain pixel data">>))

\* the keys of the metadata mapping
MetadataKeys ==
  {"patient_id", "patient_name", "study_uid", "study_date", "study_time",
   "study_description", "modality", "series_uid", "series_number",
   "series_description", "sop_uid", "instance_number", "rows", "columns"}

\* C14: every mapping extract_metadata returns, on the normal path and on the
\* error path, has the same fourteen keys
C14_FixedKeys == pc = "extracted" => DOMAIN metadata = MetadataKeys

\* the tag behind each key, and the keys of integer tags
KeyTag ==
  [patient_id |-> "PatientID", patient_name |-> "PatientName",
   study_uid |-> "StudyInstanceUID", study_date |-> "StudyDate",
   study_time |-> "StudyTime", study_description |-> "StudyDescription",
   modality |-> "Modality", series_uid |-> "SeriesInstanceUID",
   series_number |-> "SeriesNumber", series_description |-> "SeriesDescription",
   sop_uid |-> "SOPInstanceUID", instance_number |-> "InstanceNumber",
   rows |-> "Rows", columns |-> "Columns"]

IntegerKeys == {"series_number", "instance_number", "rows", "columns"}

\* the value under key k is null
IsNull(k) == IF k \in IntegerKeys THEN metadata[k].t = "None" ELSE metadata[k] = None

\* C15: extract_metadata never raises: it returns each present field with
\* its value (the patient name in its string form) and null for each absent
\* field, 'Unknown' for an absent patient name; when reading a field raises
\* it returns a mapping with patient_name 'Unknown' and every other value
\* null
C15_NeverRaises ==
  pc = "extracted"
  => /\ "patient_name" \in DOMAIN metadata
     /\ IF dicom_dataset.access_raises
        THEN /\ metadata.patient_name = "Unknown"
             /\ \A k \in DOMAIN metadata \ {"patient_name"} : IsNull(k)
        ELSE \A k \in MetadataKeys :
               /\ k \in DOMAIN metadata
               /\ IF KeyTag[k] \in DOMAIN dicom_dataset
                  THEN metadata[k] = IF k = "patient_name" THEN dicom_dataset.PatientName.v
                                     ELSE dicom_dataset[KeyTag[k]]
                  ELSE IF k = "patient_name" THEN metadata[k] = "Unknown" ELSE IsNull(k)

C15_Witness ==
  /\ pc = "extracted"
  /\ DOMAIN dicom_dataset \cap MetadataTags = {"PatientID"}
  /\ ~dicom_dataset.access_raises
  /\ metadata.patient_id = "TEST001"
  /\ metadata.patient_name = "Unknown"
  /\ metadata.study_uid = None
  /\ metadata.modality = None
  /\ metadata.rows = PyNone

(***************************************************************************)
(* Properties of the calls on a JSONStorage instance.                      *)
(***************************************************************************)
\* this step is a call of save_study
SaveStudyCalled == call.pc = "done" /\ call'.op = "save_study" /\ call'.n = call.n + 1

\* the arguments of the call have every required key
ValidArguments(c) ==
  /\ {"study_uid", "patient_id", "patient_name", "study_date", "modality"}
       \subseteq DOMAIN c.study_metadata
  /\ \A i \in 1..Len(c.images_metadata) :
       {"sop_uid", "instance_number", "file_path"} \subseteq DOMAIN c.images_metadata[i]

\* the entry the specification stores for the arguments of a call
SpecEntry(c) ==
  [study_uid |-> c.study_metadata.study_uid, patient_id |-> c.study_metadata.patient_id,
   patient_name |-> c.study_metadata.patient_name,
   study_date |-> c.study_metadata.study_date, modality |-> c.study_metadata.modality,
   images |-> c.images_metadata]

C18_Persistence ==
  /\ ~json_file.partial
  /\ loaded.valid => ~loaded.partial
  /\ (call.op = "save_study" /\ call.pc = "done" /\ call.result.status = "ok")
     => /\ json_file.exists
        /\ json_tmp = NoFile
        /\ load_data(json_file) = storage
        /\ (loaded.valid /\ loaded.at = "done") => loaded.data = storage

C18_Witness ==
  /\ call.op = "save_study" /\ call.pc = "done" /\ call.result.status = "ok"
  /\ call.n = 2
  /\ loaded.valid /\ loaded.at = "done"
  /\ Len(loaded.data) = 2
  /\ loaded.data[1].study_uid = "S2" /\ loaded.data[1].study_date = None
  /\ loaded.data[2].study_uid = "S1"
  /\ loaded.data[2].images = <<ImageMetadata("I1", 1), ImageMetadata("I2", 2)>>

\* C19: save_study with study metadata lacking a required key, or with an
\* image lacking one, raises ValueError and leaves the list in memory and
\* the JSON file unchanged
C19_InvalidLeavesStore ==
  [][(SaveStudyCalled /\ ~ValidArguments(call'))
     => /\ call'.pc = "done"
        /\ call'.result.status = "raised"
        /\ call'.result.value.type = "ValueError"
        /\ storage' = storage
        /\ json_file' = json_file
        /\ json_tmp' = json_tmp]_vars

C19_Witness ==
  /\ call.op = "save_study" /\ call.pc = "done" /\ call.n = 2
  /\ Len(call.images_metadata) = 2
  /\ "file_path" \notin DOMAIN call.images_metadata[2]
  /\ call.result.status = "raised"
  /\ call.result.value =
       ValueError(<<"Missing required field in image metadata: ", "file_path">>)
  /\ Len(storage) = 1 /\ storage[1].images = <<>>
  /\ load_data(json_file) = storage

\* the studies the filter selects: all for no filter (None or empty)
SpecSelected ==
  {i \in 1..Len(storage) :
     call.modality = None \/ call.modality = "" \/ storage[i].modality = call.modality}

\* the date of a study when it is in YYYYMMDD form, 0 when it is missing or
\* in another form
SpecDate(study) ==
  CASE study.study_date = "20250106" -> 20250106
    [] study.study_date = "20240101" -> 20240101
    [] OTHER -> 0

\* C20: get_studies returns exactly the studies with the modality of the
\* filter, all without filter, by study_date descending with missing dates
\* and dates not in YYYYMMDD form last; it leaves the store unchanged
C20_FilteredByDateDescending ==
  (call.op = "get_studies")
  => /\ call.result.status = "ok"
     /\ Len(call.result.value) = Cardinality(SpecSelected)
     /\ \A i \in SpecSelected : \E k \in 1..Len(call.result.value) :
          call.result.value[k] = storage[i]
     /\ \A k, l \in 1..Len(call.result.value) :
          k < l => SpecDate(call.result.value[k]) >= SpecDate(call.result.value[l])

\* the positions <<study, image>> of the stored images with the sop_uid of
\* the call
StoredWithUid ==
  {p \in (1..Len(storage)) \X (1..2) :
     /\ p[2] <= Len(storage[p[1]].images)
     /\ storage[p[1]].images[p[2]].sop_uid = sop_uid}

\* C21: get_image_metadata returns None exactly when no image of any stored
\* study has the sop_uid; otherwise it returns sop_uid, instance_number and
\* file_path of a stored image with that sop_uid together with study_uid,
\* patient_id and patient_name of the study that holds that image; the call
\* leaves the store unchanged
C21_ImageLookup ==
  /\ [](call.op = "get_image_metadata"
        => /\ ~call.result.value.found <=> StoredWithUid = {}
           /\ call.result.value.found
              => \E p \in StoredWithUid :
                   /\ call.result.value.sop_uid = storage[p[1]].images[p[2]].sop_uid
                   /\ call.result.value.instance_number =
                        storage[p[1]].images[p[2]].instance_number
                   /\ call.result.value.file_path = storage[p[1]].images[p[2]].file_path
                   /\ call.result.value.study_uid = storage[p[1]].study_uid
                   /\ call.result.value.patient_id = storage[p[1]].patient_id
                   /\ call.result.value.patient_name = storage[p[1]].patient_name)
  /\ [][call'.op = "get_image_metadata"
        => storage' = storage /\ json_file' = json_file /\ json_tmp' = json_tmp]_vars

C21_Witness ==
  /\ call.op = "get_image_metadata"
  /\ sop_uid = "I3"
  /\ Len(storage) = 2
  /\ storage[1].images = <<ImageMetadata("I1", 1), ImageMetadata("I2", 2)>>
  /\ storage[2].images = <<ImageMetadata("I2", 1), ImageMetadata("I3", 2)>>
  /\ call.result.value =
       [found |-> TRUE, sop_uid |-> "I3", instance_number |-> PyInt(2),
        file_path |-> file_path_of("I3"), study_uid |-> "S2", patient_id |-> "TEST002",
        patient_name |-> "Doe^John"]

(***************************************************************************)
(* Properties of the upload handler.                                       *)
(***************************************************************************)
\* the file the request is about to process
CurrentFile == requests[1].files[requests[1].i]

\* the file does not parse, or its dataset gives no study_uid or no sop_uid
InvalidFile(content) ==
  \/ ~content.parsable
  \/ content.ds.access_raises
  \/ "StudyInstanceUID" \notin DOMAIN content.ds
  \/ content.ds.StudyInstanceUID \in {None, ""}
  \/ "SOPInstanceUID" \notin DOMAIN content.ds
  \/ content.ds.SOPInstanceUID \in {None, ""}

\* C16: the upload handler answers 400 to every file that does not parse or
\* has no study_uid or no sop_uid, before the file is copied into the file
\* store or added to a study, and the request gives no success response
C16_RejectsInvalidFile ==
  [][(requests[1].pc = "reading" /\ InvalidFile(CurrentFile))
     => /\ requests'[1].pc = "done"
        /\ requests'[1].status_code = 400
        /\ requests'[1].responses = <<>>
        /\ requests'[1].studies_data = requests[1].studies_data
        /\ dicom_files' = dicom_files
        /\ json_file' = json_file]_vars

C16_Witness ==
  /\ requests[1].pc = "done"
  /\ requests[1].status_code = 400
  /\ requests[1].i = 2
  /\ "SOPInstanceUID" \notin DOMAIN requests[1].files[2].ds
  /\ Len(requests[1].studies_data) = 1
  /\ DOMAIN dicom_files = {file_path_of("I1")}
  /\ requests[1].responses = <<>>
  /\ json_file = NoFile

\* the request has been answered 200
Uploaded == requests[1].pc = "done" /\ requests[1].status_code = 200

\* the positions of the files of the request with the study_uid
FilesOfStudy(study_uid) ==
  {i \in 1..Len(requests[1].files) : requests[1].files[i].ds.StudyInstanceUID = study_uid}

\* the study identifiers among the files of the request
RequestStudyUids ==
  {requests[1].files[i].ds.StudyInstanceUID : i \in 1..Len(requests[1].files)}

\* the sop_uids of the files of the request with the study_uid, in request
\* order
RECURSIVE SopUidsFrom(_, _)
SopUidsFrom(study_uid, i) ==
  IF i > Len(requests[1].files) THEN <<>>
  ELSE (IF i \in FilesOfStudy(study_uid)
        THEN <<requests[1].files[i].ds.SOPInstanceUID>> ELSE <<>>)
       \o SopUidsFrom(study_uid, i + 1)

\* the sum of num_files over the responses from position k
RECURSIVE NumFilesFrom(_)
NumFilesFrom(k) ==
  IF k > Len(requests[1].responses) THEN 0
  ELSE requests[1].responses[k].num_files + NumFilesFrom(k + 1)

\* C23: a successful upload groups the images by study: the response has one
\* entry per distinct study_uid of the files, num_files of an entry is the
\* number of files with its study_uid (the entries sum to the number of
\* files), and the study saved under the uid holds one image per such file,
\* in request order
C23_GroupedByStudy ==
  Uploaded
  => /\ Len(requests[1].responses) = Cardinality(RequestStudyUids)
     /\ \A u \in RequestStudyUids :
          \E k \in 1..Len(requests[1].responses) : requests[1].responses[k].study_uid = u
     /\ \A k \in 1..Len(requests[1].responses) :
          requests[1].responses[k].num_files =
            Cardinality(FilesOfStudy(requests[1].responses[k].study_uid))
     /\ NumFilesFrom(1) = Len(requests[1].files)
     /\ \A u \in RequestStudyUids :
          \E i \in 1..Len(load_data(json_file)) :
            /\ load_data(json_file)[i].study_uid = u
            /\ [j \in 1..Len(load_data(json_file)[i].images) |->
                  load_data(json_file)[i].images[j].sop_uid] = SopUidsFrom(u, 1)

C23_Witness ==
  /\ Uploaded
  /\ Len(requests[1].files) = 2
  /\ requests[1].files[1].ds.SOPInstanceUID = "I1"
  /\ requests[1].files[2].ds.SOPInstanceUID = "I2"
  /\ requests[1].responses = <<UploadResponse("S1", "TEST001", 2)>>
  /\ Len(load_data(json_file)) = 1
  /\ load_data(json_file)[1].images =
       <<[sop_uid |-> "I1", instance_number |-> PyInt(1), file_path |-> file_path_of("I1")],
         [sop_uid |-> "I2", instance_number |-> PyInt(1), file_path |-> file_path_of("I2")]>>

\* the request has been answered with an error status
UploadFailed == requests[1].pc = "done" /\ requests[1].status_code \in 400..599

\* C26: an upload request is all-or-nothing: when the handler ends with an
\* error response the persisted study list is the one of before the request
\* (here the empty list of a store without JSON file)
C26_AllOrNothing == UploadFailed => load_data(json_file) = load_data(NoFile)

\* C27: every study stored by an upload answered 200 can be read back:
\* GET /studies answers 200 and lists each stored study, and GET
\* /studies/{study_uid} answers 200 for each of them, also when optional
\* fields of the files were absent
C27_ReadBack ==
  (Uploaded /\ image_response # NoResponse)
  => IF sop_uid = None
     THEN /\ image_response.status_code = 200
          /\ \A i \in 1..Len(load_data(json_file)) :
               \E k \in 1..Len(image_response.body) :
                 image_response.body[k].study_uid = load_data(json_file)[i].study_uid
     ELSE (\E i \in 1..Len(load_data(json_file)) :
             load_data(json_file)[i].study_uid = sop_uid)
          => image_response.status_code = 200

\* C28: every temporary file the handler created for an uploaded file has
\* been deleted when the handler returns, whether the request succeeded or a
\* file was rejected
C28_TempFilesDeleted == requests[1].pc = "done" => tmp_files = {}

(***************************************************************************)
(* Properties of the metadata store under concurrent uploads.              *)
(***************************************************************************)
\* the study identifiers request r carried
StudyUidsOf(r) ==
  {requests[r].studies_data[i].study_uid : i \in 1..Len(requests[r].studies_data)}

\* the study identifiers the JSON file holds
PersistedUids == {load_data(json_file)[i].study_uid : i \in 1..Len(load_data(json_file))}

\* C6: once two upload requests with different study identifiers have both
\* returned success, the persisted store holds the studies of both
C6_NoLostUpdate ==
  (/\ \A r \in Requests : requests[r].pc = "done" /\ requests[r].status_code = 200
   /\ StudyUidsOf(1) \cap StudyUidsOf(2) = {})
  => (StudyUidsOf(1) \cup StudyUidsOf(2)) \subseteq PersistedUids

(***************************************************************************)
(* Properties of the viewer window.                                        *)
(***************************************************************************)
\* C29: in every state the viewer reaches by selecting studies, stepping to
\* the next or the previous image and applying presets, whether the backend
\* calls succeed or fail, current_index is at least 0 and, when current_images
\* is not empty, less than its length; next_image at the last image and
\* previous_image at the first image change nothing of the window.
C29_IndexInRange ==
  /\ [](/\ main_window.current_index >= 0
        /\ main_window.current_images # <<>> =>
             main_window.current_index < Len(main_window.current_images))
  /\ [][(\/ /\ ui_event'.name = "next_image"
            /\ main_window.current_images # <<>>
            /\ main_window.current_index = Len(main_window.current_images) - 1
         \/ /\ ui_event'.name = "previous_image"
            /\ main_window.current_images # <<>>
            /\ main_window.current_index = 0)
        => main_window' = main_window]_vars

\* next_image was the last event, at the last of MaxImages images: its fetch
\* would have succeeded, yet the label still shows an earlier image, so the
\* handler did not move and did not fetch
C29_Witness ==
  /\ ui_event.name = "next_image"
  /\ ui_event.image_ok
  /\ Len(main_window.current_images) = MaxImages
  /\ main_window.current_index = MaxImages - 1
  /\ main_window.image_label = main_window.current_images[MaxImages - 1].sop_uid

\* C30: whenever current_images is not empty it is the image list the
\* backend holds for current_study, also after an on_study_selected whose
\* get_study_detail failed.
C30_ImagesOfCurrentStudy ==
  main_window.current_images # <<>> =>
    \E i \in 1..Len(storage) :
      /\ storage[i].study_uid = main_window.current_study.study_uid
      /\ storage[i].images = main_window.current_images

====
